---- MODULE Spec2Model ----
(***************************************************************************)
(* configguard: a schema (a tree of typed rules) is loaded and checked by  *)
(* Schema::from_file, a configuration document (a serde_yaml Value tree)   *)
(* is walked against it by validate, which collects every violation in one *)
(* error list.                                                             *)
(*                                                                         *)
(* Text is modelled as a sequence of one-character strings, so that paths  *)
(* are built by concatenation exactly as format! builds them.  An Option   *)
(* is a sequence of length 0 (None) or 1 (Some).                           *)
(***************************************************************************)
EXTENDS Integers, Sequences, FiniteSets, TLC

VARIABLES
    rawSchema,   \* the SchemaRule deserialized from the schema file
    schema,      \* Option<Schema>: the result of Schema::from_file, once it ran
    schemaErr,   \* the error Schema::from_file returned ("none" when it did not fail)
    config,      \* Config.data, the parsed document
    content,     \* Config.content: the raw text of the document, when the caller kept it
    config_format, \* Config.format: "Yaml" or "Json"
    strict,      \* the --strict flag
    hashOrder,   \* the iteration order of this process's HashMap<String, SchemaRule>
    pc,          \* "start", "loaded", "schema_failed", "validated"
    errors,      \* the Vec<ValidationError> validate collected
    calls,       \* every validate_node invocation of the walk, in call order
    outcome,     \* what validate returned (None until it ran)
    prev,        \* what an earlier run of the process on the same inputs returned
    files,       \* the files named by the config arguments (or found in the directory)
    format,      \* --format: "text" or "json"
    directory,   \* the --directory flag
    cursor,      \* the position of the file loop
    errors_found,\* the flag of validate_configs / validate_directories
    counts,      \* processed, valid and skipped of process_directory
    results,     \* what happened to each file the loop has handled
    printed,     \* everything written to stdout and stderr, in order
    run_result,  \* the RunResult run() returned (None until it returned)
    exited       \* the code the process exited with (None until it exited)

\* the state of the command-line run around the validation
cliVars == <<files, format, directory, cursor, errors_found, counts, results, printed,
             run_result, exited>>
\* the raw text beside the parsed document
textVars == <<content, config_format>>
vars == <<rawSchema, schema, schemaErr, config, textVars, strict, hashOrder, pc, errors, calls,
          outcome, prev, cliVars>>

None == <<>>
Some(x) == <<x>>
IsSome(o) == o # <<>>

(***************************************************************************)
(* serde_yaml::Value                                                       *)
(***************************************************************************)
VNull == [tag |-> "Null"]
VBool(b) == [tag |-> "Bool", b |-> b]
\* a Number in exact-integer representation (PosInt / NegInt): the integer n
VInt(n) == [tag |-> "Number", repr |-> "int", n |-> n, big |-> FALSE]
\* the integer 2^53 + k (k >= 0), beyond the integers an f64 holds exactly
VBigInt(k) == [tag |-> "Number", repr |-> "int", n |-> k, big |-> TRUE]
\* a Number in floating representation.  cls tells NaN and the infinities from
\* the finite values: "fin" is the value twice/2 (so halves are exact), "big"
\* is the value 2^53 + twice/2, where representable values are 2 apart
F64(cls, twice) == [cls |-> cls, twice |-> twice]
VFloat(cls, twice) == [tag |-> "Number", repr |-> "float", f |-> F64(cls, twice)]
VString(s) == [tag |-> "String", s |-> s]
VSequence(items) == [tag |-> "Sequence", items |-> items]
\* a Mapping keeps its entries in insertion order; keys are Values
VMapping(entries) == [tag |-> "Mapping", entries |-> entries]
Entry(k, v) == [key |-> k, val |-> v]
\* a YAML value carrying a !tag
VTagged == [tag |-> "Tagged"]

\* Mapping::contains_key / Mapping::get
MapGet(entries, k) ==
    LET hits == {i \in 1..Len(entries) : entries[i].key = k}
    IN IF hits = {} THEN None ELSE Some(entries[CHOOSE i \in hits : TRUE].val)

\* Number::as_f64 / Value::as_f64: None for anything that is not a Number
\* `n as f64` for the integer 2^53 + k: round to the nearest representable
\* value, ties to the even mantissa
RoundTiesEven(k) ==
    IF k % 2 = 0 THEN k
    ELSE IF ((k - 1) \div 2) % 2 = 0 THEN k - 1 ELSE k + 1
as_f64(value) ==
    IF value.tag # "Number" THEN None
    ELSE IF value.repr = "int"
         THEN IF value.big THEN Some(F64("big", 2 * RoundTiesEven(value.n)))
              ELSE Some(F64("fin", 2 * value.n))
    ELSE Some(value.f)

is_nan(x) == x.cls = "nan"
is_infinite(x) == x.cls \in {"pinf", "ninf"}
\* IEEE comparison: every comparison with NaN is false
F64Lt(x, y) ==
    /\ ~is_nan(x) /\ ~is_nan(y)
    /\ \/ x.cls = "ninf" /\ y.cls # "ninf"
       \/ y.cls = "pinf" /\ x.cls # "pinf"
       \/ x.cls = "fin" /\ y.cls = "fin" /\ x.twice < y.twice
       \/ x.cls = "fin" /\ y.cls = "big"
       \/ x.cls = "big" /\ y.cls = "big" /\ x.twice < y.twice
\* (num - enum_num).abs() <= f64::EPSILON, for finite num: at the granularity of
\* halves two finite values are within EPSILON iff they are equal
WithinEpsilon(num, enum_num) == enum_num.cls = num.cls /\ num.twice = enum_num.twice

(***************************************************************************)
(* Text                                                                    *)
(***************************************************************************)
Digits == <<"0", "1", "2", "3", "4", "5", "6", "7", "8", "9">>
RECURSIVE FmtUsize(_)
\* format!("{}", i) for a usize
FmtUsize(n) == IF n < 10 THEN <<Digits[n + 1]>> ELSE FmtUsize(n \div 10) \o <<Digits[(n % 10) + 1]>>

\* format!("{}", x) for an f64; 2^53 is 9007199254740992, and the "big" values
\* of the model stay below 2^53 + 8
FmtF64(x) ==
    LET a == IF x.twice < 0 THEN -x.twice ELSE x.twice
        sign == IF x.twice < 0 THEN "-" ELSE ""
    IN CASE x.cls = "nan" -> "NaN"
         [] x.cls = "pinf" -> "inf"
         [] x.cls = "ninf" -> "-inf"
         [] x.cls = "big" -> "900719925474099" \o ToString(2 + (x.twice \div 2))
         [] OTHER -> sign \o ToString(a \div 2) \o (IF a % 2 = 1 THEN ".5" ELSE "")

\* the UTF-8 width of one character: the model's alphabet has one two-byte letter
Utf8Width(c) == IF c = "é" THEN 2 ELSE 1
RECURSIVE ByteLen(_)
\* str::len: the length in bytes
ByteLen(s) == IF s = <<>> THEN 0 ELSE Utf8Width(Head(s)) + ByteLen(Tail(s))

IsPrefixOf(p, s) == Len(p) <= Len(s) /\ SubSeq(s, 1, Len(p)) = p

\* char::is_whitespace, for the white space of the model's texts
IsSpace(c) == c \in {" ", "\t", "\r"}
RECURSIVE trim_start(_)
trim_start(s) == IF s # <<>> /\ IsSpace(Head(s)) THEN trim_start(Tail(s)) ELSE s
RECURSIVE trim_end(_)
trim_end(s) ==
    IF s # <<>> /\ IsSpace(s[Len(s)]) THEN trim_end(SubSeq(s, 1, Len(s) - 1)) ELSE s
\* str::trim
trim(s) == trim_end(trim_start(s))
RECURSIVE trim_matches(_, _)
\* str::trim_matches(c): every leading and trailing c is removed
trim_matches(s, c) ==
    IF s # <<>> /\ Head(s) = c THEN trim_matches(Tail(s), c)
    ELSE IF s # <<>> /\ s[Len(s)] = c THEN trim_matches(SubSeq(s, 1, Len(s) - 1), c)
    ELSE s
\* str::contains(c), str::starts_with(c), str::ends_with(c)
contains(s, c) == \E i \in 1..Len(s) : s[i] = c
starts_with(s, c) == s # <<>> /\ Head(s) = c
ends_with(s, c) == s # <<>> /\ s[Len(s)] = c
\* the positions of c in s
Positions(s, c) == {i \in 1..Len(s) : s[i] = c}
Least(S) == CHOOSE n \in S : \A m \in S : n <= m
Greatest(S) == CHOOSE n \in S : \A m \in S : m <= n
\* s.split(c).next(): the text before the first c, all of s when it holds none
split_next(s, c) ==
    IF contains(s, c) THEN SubSeq(s, 1, Least(Positions(s, c)) - 1) ELSE s
\* s.split(c).last(): the text after the last c, all of s when it holds none
split_last(s, c) ==
    IF contains(s, c) THEN SubSeq(s, Greatest(Positions(s, c)) + 1, Len(s)) ELSE s
RECURSIVE SplitTerminated(_)
\* the pieces of s between line feeds; a text that ends with a line feed has
\* no further, empty piece after it
SplitTerminated(s) ==
    IF s = <<>> THEN <<>>
    ELSE IF ~contains(s, "\n") THEN <<s>>
    ELSE LET i == Least(Positions(s, "\n"))
         IN <<SubSeq(s, 1, i - 1)>> \o SplitTerminated(SubSeq(s, i + 1, Len(s)))
\* str::lines: the lines of a text, each without its line feed and without a
\* carriage return before it
lines(s) ==
    LET pieces == SplitTerminated(s)
    IN [i \in 1..Len(pieces) |->
           IF ends_with(pieces[i], "\r") THEN SubSeq(pieces[i], 1, Len(pieces[i]) - 1)
           ELSE pieces[i]]

(***************************************************************************)
(* Regex: the patterns of the model are an optional "^" followed by        *)
(* literal characters; a pattern holding "*" or "[" is one the regex crate *)
(* refuses to compile (as "*[invalid regex" of the schema's own test).     *)
(***************************************************************************)
RegexCompiles(pattern) == \A i \in 1..Len(pattern) : pattern[i] \notin {"*", "["}
RegexIsMatch(pattern, s) ==
    IF pattern # <<>> /\ Head(pattern) = "^"
    THEN IsPrefixOf(Tail(pattern), s)
    ELSE \E i \in 0..Len(s) : IsPrefixOf(pattern, SubSeq(s, i + 1, Len(s)))

(***************************************************************************)
(* SchemaType, SchemaRule                                                  *)
(***************************************************************************)
SchemaType == {"String", "Integer", "Float", "Boolean", "Object", "List", "Any", "Null"}

\* a rule with only its type set: every other field at its serde default
Rule(data_type) ==
    [data_type |-> data_type, description |-> None, required |-> FALSE,
     keys |-> None, allow_unknown_keys |-> TRUE, items |-> None,
     min_length |-> None, max_length |-> None, pattern |-> None,
     enum_values |-> None, min |-> None, max |-> None]

\* HashMap iteration: the keys of one map, in this process's order
HashIter(keys) == SelectSeq(hashOrder, LAMBDA k : k \in DOMAIN keys)

(***************************************************************************)
(* ValidationError                                                         *)
(***************************************************************************)
ValidationError(path, message, expected, actual, description) ==
    [path |-> path, message |-> message, expected |-> expected, actual |-> actual,
     description |-> description, line |-> None]

\* the accumulator threaded through the walk: the error Vec, the trace of
\* validate_node calls, and the Err a `?` is propagating ("none" while Ok)
EmptyAcc == [errors |-> <<>>, calls |-> <<>>, err |-> "none"]
\* (mutant) fail-fast reporting: once an error is recorded, later ones are dropped
PushUnlessFailed(acc, e) == IF acc.errors # <<>> THEN acc ELSE [acc EXCEPT !.errors = Append(@, e)]
Push(acc, e) == [acc EXCEPT !.errors = Append(@, e)]

\* (mutant) the parent's path is left out
KeyPathFromRoot(path, key_name) == <<".">> \o key_name
\* format!(".{}", key_name) at the root, format!("{}.{}", path, key_name) below
KeyPath(path, key_name) ==
    IF path = <<>> THEN <<".">> \o key_name ELSE path \o <<".">> \o key_name
\* format!("{}[{}]", path, i)
ItemPath(path, i) == path \o <<"[">> \o FmtUsize(i) \o <<"]">>

\* (mutant) any Number passes for a float
validate_type_float_any_number(value, expected_type) ==
    CASE expected_type = "String" -> value.tag = "String"
      [] expected_type = "Integer" -> value.tag = "Number" /\ value.repr = "int"
      [] expected_type = "Float" -> value.tag = "Number"
      [] expected_type = "Boolean" -> value.tag = "Bool"
      [] expected_type = "Object" -> value.tag = "Mapping"
      [] expected_type = "List" -> value.tag = "Sequence"
      [] expected_type = "Null" -> value.tag = "Null"
      [] expected_type = "Any" -> TRUE
\* Check if a value matches the expected type
validate_type(value, expected_type) ==
    CASE expected_type = "String" -> value.tag = "String"
      [] expected_type = "Integer" -> value.tag = "Number" /\ value.repr = "int"
      [] expected_type = "Float" -> value.tag = "Number" /\ value.repr = "float"
      [] expected_type = "Boolean" -> value.tag = "Bool"
      [] expected_type = "Object" -> value.tag = "Mapping"
      [] expected_type = "List" -> value.tag = "Sequence"
      [] expected_type = "Null" -> value.tag = "Null"
      [] expected_type = "Any" -> TRUE

value_type_name(value) ==
    CASE value.tag = "String" -> "string"
      [] value.tag = "Number" -> IF value.repr = "int" THEN "integer" ELSE "float"
      [] value.tag = "Bool" -> "boolean"
      [] value.tag = "Mapping" -> "object"
      [] value.tag = "Sequence" -> "list"
      [] value.tag = "Null" -> "null"
      [] OTHER -> "unknown"

\* enum_values.iter().map(|v| format!("{:?}", v)).join(", ")
AllowedValues(enum_values) == [i \in 1..Len(enum_values) |-> ToString(enum_values[i])]

(***************************************************************************)
(* validate_string                                                         *)
(***************************************************************************)
\* (mutant) a string that fails its pattern is not checked against the enum
validate_string_stop_at_pattern(value, rule, path, acc) ==
    IF value.tag # "String" THEN acc
    ELSE
    LET s == value.s
        a1 == IF IsSome(rule.min_length) /\ ByteLen(s) < rule.min_length[1]
              THEN Push(acc, ValidationError(path, "String too short",
                        <<"At least ", ToString(rule.min_length[1]), " characters">>,
                        <<ToString(ByteLen(s)), " characters">>, rule.description))
              ELSE acc
        a2 == IF IsSome(rule.max_length) /\ ByteLen(s) > rule.max_length[1]
              THEN Push(a1, ValidationError(path, "String too long",
                        <<"At most ", ToString(rule.max_length[1]), " characters">>,
                        <<ToString(ByteLen(s)), " characters">>, rule.description))
              ELSE a1
        found == IsSome(rule.enum_values) /\
                 \E i \in 1..Len(rule.enum_values[1]) :
                     /\ rule.enum_values[1][i].tag = "String"
                     /\ rule.enum_values[1][i].s = s
    IN IF IsSome(rule.pattern) /\ ~RegexCompiles(rule.pattern[1])
       THEN [a2 EXCEPT !.err = "Pattern"]
       ELSE IF IsSome(rule.pattern) /\ ~RegexIsMatch(rule.pattern[1], s)
       THEN Push(a2, ValidationError(path, "String doesn't match pattern",
                 <<"Pattern: ">> \o rule.pattern[1], s, rule.description))
       ELSE IF IsSome(rule.enum_values) /\ ~found
       THEN Push(a2, ValidationError(path, "Value not in allowed set",
                 <<"One of: ">> \o AllowedValues(rule.enum_values[1]), s,
                 rule.description))
       ELSE a2

validate_string(value, rule, path, acc) ==
    IF value.tag # "String" THEN acc
    ELSE
    LET s == value.s
        a1 == IF IsSome(rule.min_length) /\ ByteLen(s) < rule.min_length[1]
              THEN Push(acc, ValidationError(path, "String too short",
                        <<"At least ", ToString(rule.min_length[1]), " characters">>,
                        <<ToString(ByteLen(s)), " characters">>, rule.description))
              ELSE acc
        a2 == IF IsSome(rule.max_length) /\ ByteLen(s) > rule.max_length[1]
              THEN Push(a1, ValidationError(path, "String too long",
                        <<"At most ", ToString(rule.max_length[1]), " characters">>,
                        <<ToString(ByteLen(s)), " characters">>, rule.description))
              ELSE a1
    IN  \* Regex::new(pattern)? -- an invalid pattern returns Err(Pattern) from here
        IF IsSome(rule.pattern) /\ ~RegexCompiles(rule.pattern[1])
        THEN [a2 EXCEPT !.err = "Pattern"]
        ELSE
        LET a3 == IF IsSome(rule.pattern) /\ ~RegexIsMatch(rule.pattern[1], s)
                  THEN Push(a2, ValidationError(path, "String doesn't match pattern",
                            <<"Pattern: ">> \o rule.pattern[1], s, rule.description))
                  ELSE a2
            found == IsSome(rule.enum_values) /\
                     \E i \in 1..Len(rule.enum_values[1]) :
                         /\ rule.enum_values[1][i].tag = "String"
                         /\ rule.enum_values[1][i].s = s
        IN IF IsSome(rule.enum_values) /\ ~found
           THEN Push(a3, ValidationError(path, "Value not in allowed set",
                     <<"One of: ">> \o AllowedValues(rule.enum_values[1]), s,
                     rule.description))
           ELSE a3

(***************************************************************************)
(* validate_number                                                         *)
(***************************************************************************)
RECURSIVE EnumScan(_, _, _)
\* the `for enum_val in enum_values` loop of validate_number from entry i on:
\* "found" at the first entry equal to num (break), <<"invalid", i>> at the
\* first non-numeric entry met before that (return), "absent" otherwise
EnumScan(enum_values, i, num) ==
    IF i > Len(enum_values) THEN <<"absent">>
    ELSE IF IsSome(as_f64(enum_values[i]))
         THEN IF WithinEpsilon(num, as_f64(enum_values[i])[1])
              THEN <<"found">>
              ELSE EnumScan(enum_values, i + 1, num)
         ELSE <<"invalid", i>>

validate_number(value, rule, path, acc) ==
    IF ~IsSome(as_f64(value)) THEN acc
    ELSE
    LET num == as_f64(value)[1] IN
    IF is_nan(num)
    THEN Push(acc, ValidationError(path, "Invalid numeric value", <<"A valid number">>,
              <<"NaN (Not a Number)">>, rule.description))
    ELSE IF is_infinite(num)
    THEN Push(acc, ValidationError(path, "Invalid numeric value", <<"A finite number">>,
              <<IF num.cls = "pinf" THEN "Positive infinity" ELSE "Negative infinity">>,
              rule.description))
    ELSE
    LET a1 == IF IsSome(rule.min) /\ IsSome(as_f64(rule.min[1]))
                 /\ F64Lt(num, as_f64(rule.min[1])[1])
              THEN Push(acc, ValidationError(path, "Value too small",
                        <<"At least ", FmtF64(as_f64(rule.min[1])[1])>>,
                        <<FmtF64(num)>>, rule.description))
              ELSE acc
        a2 == IF IsSome(rule.max) /\ IsSome(as_f64(rule.max[1]))
                 /\ F64Lt(as_f64(rule.max[1])[1], num)
              THEN Push(a1, ValidationError(path, "Value too large",
                        <<"At most ", FmtF64(as_f64(rule.max[1])[1])>>,
                        <<FmtF64(num)>>, rule.description))
              ELSE a1
    IN IF ~IsSome(rule.enum_values) THEN a2
       ELSE
       LET scan == EnumScan(rule.enum_values[1], 1, num) IN
       CASE scan[1] = "found" -> a2
         [] scan[1] = "invalid" ->
              Push(a2, ValidationError(path, "Invalid enum value type",
                   <<"Numeric value for numeric field">>,
                   <<"Non-numeric value: ", ToString(rule.enum_values[1][scan[2]])>>,
                   rule.description))
         [] scan[1] = "absent" ->
              Push(a2, ValidationError(path, "Value not in allowed set",
                   <<"One of: ">> \o AllowedValues(rule.enum_values[1]),
                   <<FmtF64(num)>>, rule.description))

(***************************************************************************)
(* validate_node, validate_object, validate_list                           *)
(***************************************************************************)
RECURSIVE validate_node(_, _, _, _, _)
RECURSIVE validate_object(_, _, _, _, _)
RECURSIVE ObjectEntries(_, _, _, _, _, _)
RECURSIVE validate_list(_, _, _, _)
RECURSIVE ListItems(_, _, _, _, _)

\* (mutant) the `key_rule.required &&` test is lost: every absent declared key
\* is reported
RequiredKeyCheckAnyAbsent(map, key_name, key_rule, path, acc) ==
    IF ~IsSome(MapGet(map, VString(key_name)))
    THEN Push(acc, ValidationError(KeyPath(path, key_name), "Required key missing",
              <<"Key to be present">>, <<"Key is absent">>, key_rule.description))
    ELSE acc

\* (mutant) a required key that is present has its value validated here, and
\* again by the loop over the entries
RequiredKeyCheckValidatesPresent(map, key_name, key_rule, path, acc) ==
    LET got == MapGet(map, VString(key_name)) IN
    IF key_rule.required /\ ~IsSome(got)
    THEN Push(acc, ValidationError(KeyPath(path, key_name), "Required key missing",
              <<"Key to be present">>, <<"Key is absent">>, key_rule.description))
    ELSE IF key_rule.required
    THEN validate_node(got[1], key_rule, KeyPath(path, key_name), acc, FALSE)
    ELSE acc

\* (mutant) an empty required object is reported only when one of its
\* declared keys is required
RequiredKeyCheckEmptyNeedsRequired(map, key_name, key_rule, path, acc) ==
    LET got == MapGet(map, VString(key_name)) IN
    IF key_rule.required /\ ~IsSome(got)
    THEN Push(acc, ValidationError(KeyPath(path, key_name), "Required key missing",
              <<"Key to be present">>, <<"Key is absent">>, key_rule.description))
    ELSE IF /\ key_rule.required /\ key_rule.data_type = "Object"
            /\ IsSome(got) /\ got[1].tag = "Mapping"
            /\ got[1].entries = <<>>
            /\ IsSome(key_rule.keys)
            /\ \E k \in DOMAIN key_rule.keys[1] : key_rule.keys[1][k].required
    THEN Push(acc, ValidationError(KeyPath(path, key_name), "Required object is empty",
              <<"Object with required fields">>, <<"Empty object">>, key_rule.description))
    ELSE acc

\* the body of `for (key_name, key_rule) in keys` for one declared key
RequiredKeyCheck(map, key_name, key_rule, path, acc) ==
    LET got == MapGet(map, VString(key_name)) IN
    IF key_rule.required /\ ~IsSome(got)
    THEN Push(acc, ValidationError(KeyPath(path, key_name), "Required key missing",
              <<"Key to be present">>, <<"Key is absent">>, key_rule.description))
    ELSE IF /\ key_rule.required /\ key_rule.data_type = "Object"
            /\ IsSome(got) /\ got[1].tag = "Mapping"
            /\ got[1].entries = <<>>
            /\ IsSome(key_rule.keys) /\ DOMAIN key_rule.keys[1] # {}
    THEN Push(acc, ValidationError(KeyPath(path, key_name), "Required object is empty",
              <<"Object with required fields">>, <<"Empty object">>,
              key_rule.description))
    ELSE acc

RECURSIVE ObjectRequiredFirstOnly(_, _, _, _, _, _)
\* (mutant) the loop over the declared keys stops at the first key it reports
ObjectRequiredFirstOnly(order, i, map, keys, path, acc) ==
    IF i > Len(order) THEN acc
    ELSE LET a == RequiredKeyCheck(map, order[i], keys[order[i]], path, acc)
         IN IF a.errors # acc.errors THEN a
            ELSE ObjectRequiredFirstOnly(order, i + 1, map, keys, path, a)

RECURSIVE ObjectRequired(_, _, _, _, _, _)
\* the loop over the declared keys, in HashMap order, from position i on
ObjectRequired(order, i, map, keys, path, acc) ==
    IF i > Len(order) THEN acc
    ELSE ObjectRequired(order, i + 1, map, keys, path,
                        RequiredKeyCheck(map, order[i], keys[order[i]], path, acc))

\* the loop `for (key, val) in map`, from entry i on; `?` leaves it on an Err
ObjectEntries(map, i, keys, path, acc, allow_unknown_keys) ==
    IF i > Len(map) \/ acc.err # "none" THEN acc
    ELSE
    LET key == map[i].key
        val == map[i].val
    IN IF key.tag # "String"
       THEN ObjectEntries(map, i + 1, keys, path, acc, allow_unknown_keys)
       ELSE IF key.s \in DOMAIN keys
       THEN LET key_rule == keys[key.s]
                new_path == KeyPath(path, key.s)
                nested_allow_unknown ==
                    IF ~allow_unknown_keys THEN FALSE ELSE key_rule.allow_unknown_keys
            IN ObjectEntries(map, i + 1, keys, path,
                   validate_node(val, key_rule, new_path, acc, nested_allow_unknown),
                   allow_unknown_keys)
       ELSE IF ~allow_unknown_keys
       THEN ObjectEntries(map, i + 1, keys, path,
                Push(acc, ValidationError(KeyPath(path, key.s), "Unknown key",
                     <<"Key defined in schema">>, <<"Undefined key">>, None)),
                allow_unknown_keys)
       ELSE ObjectEntries(map, i + 1, keys, path, acc, allow_unknown_keys)

\* (mutant) the entries of the mapping are walked before the declared keys are
\* checked for presence
validate_object_entries_first(value, rule, path, acc, allow_unknown_keys) ==
    IF value.tag = "Mapping" /\ IsSome(rule.keys)
    THEN LET keys == rule.keys[1]
             map == value.entries
         IN ObjectRequired(HashIter(keys), 1, map, keys, path,
                ObjectEntries(map, 1, keys, path, acc, allow_unknown_keys))
    ELSE acc

\* (mutant) a rule without `keys` is taken as one that declares no key at all
validate_object_absent_keys_as_empty(value, rule, path, acc, allow_unknown_keys) ==
    IF value.tag = "Mapping"
    THEN LET keys == IF IsSome(rule.keys) THEN rule.keys[1] ELSE <<>>
             map == value.entries
         IN ObjectEntries(map, 1, keys, path,
                ObjectRequired(HashIter(keys), 1, map, keys, path, acc),
                allow_unknown_keys)
    ELSE acc

validate_object(value, rule, path, acc, allow_unknown_keys) ==
    IF value.tag = "Mapping" /\ IsSome(rule.keys)
    THEN LET keys == rule.keys[1]
             map == value.entries
         IN ObjectEntries(map, 1, keys, path,
                ObjectRequired(HashIter(keys), 1, map, keys, path, acc),
                allow_unknown_keys)
    ELSE acc

RECURSIVE ListItemsStrict(_, _, _, _, _)
\* (mutant) the elements are validated with strict = true
ListItemsStrict(items, n, item_rule, path, acc) ==
    IF n > Len(items) \/ acc.err # "none" THEN acc
    ELSE ListItemsStrict(items, n + 1, item_rule, path,
             validate_node(items[n], item_rule, ItemPath(path, n - 1), acc, TRUE))

\* the loop `for (i, item) in items.iter().enumerate()`, from the element at
\* (1-based) position n on; `?` leaves it on an Err
ListItems(items, n, item_rule, path, acc) ==
    IF n > Len(items) \/ acc.err # "none" THEN acc
    ELSE ListItems(items, n + 1, item_rule, path,
             validate_node(items[n], item_rule, ItemPath(path, n - 1), acc, FALSE))

\* (mutant) the minimum is exclusive: a list of exactly min_length items is short
validate_list_min_exclusive(value, rule, path, acc) ==
    IF value.tag # "Sequence" THEN acc
    ELSE
    LET items == value.items
        short == IsSome(rule.min_length) /\ Len(items) <= rule.min_length[1]
        a1 == IF short
              THEN Push(acc, ValidationError(path, "List too short",
                        <<"At least ", ToString(rule.min_length[1]), " items">>,
                        <<ToString(Len(items)), " items">>, rule.description))
              ELSE acc
    IN IF short /\ items = <<>> /\ rule.min_length[1] > 0 THEN a1
       ELSE
       LET a2 == IF IsSome(rule.max_length) /\ Len(items) > rule.max_length[1]
                 THEN Push(a1, ValidationError(path, "List too long",
                           <<"At most ", ToString(rule.max_length[1]), " items">>,
                           <<ToString(Len(items)), " items">>, rule.description))
                 ELSE a1
       IN IF IsSome(rule.items)
          THEN ListItems(items, 1, rule.items[1], path, a2)
          ELSE a2

validate_list(value, rule, path, acc) ==
    IF value.tag # "Sequence" THEN acc
    ELSE
    LET items == value.items
        short == IsSome(rule.min_length) /\ Len(items) < rule.min_length[1]
        a1 == IF short
              THEN Push(acc, ValidationError(path, "List too short",
                        <<"At least ", ToString(rule.min_length[1]), " items">>,
                        <<ToString(Len(items)), " items">>, rule.description))
              ELSE acc
    IN IF short /\ items = <<>> /\ rule.min_length[1] > 0 THEN a1
       ELSE
       LET a2 == IF IsSome(rule.max_length) /\ Len(items) > rule.max_length[1]
                 THEN Push(a1, ValidationError(path, "List too long",
                           <<"At most ", ToString(rule.max_length[1]), " items">>,
                           <<ToString(Len(items)), " items">>, rule.description))
                 ELSE a1
       IN IF IsSome(rule.items)
          THEN ListItems(items, 1, rule.items[1], path, a2)
          ELSE a2

\* (mutant) the `return Ok(())` after the Type mismatch push is lost: the
\* type-specific checks run on the mismatched value too
validate_node_no_return(value, rule, path, acc, strict_arg) ==
    LET allow_unknown_keys == IF strict_arg THEN FALSE ELSE rule.allow_unknown_keys
        entered == [acc EXCEPT !.calls = Append(@,
                       [value |-> value, rule |-> rule, path |-> path,
                        strict |-> strict_arg])]
        checked == IF ~validate_type(value, rule.data_type)
                   THEN Push(entered, ValidationError(path, "Type mismatch",
                             <<rule.data_type>>, <<value_type_name(value)>>,
                             rule.description))
                   ELSE entered
    IN CASE rule.data_type = "Object" ->
                validate_object(value, rule, path, checked, allow_unknown_keys)
         [] rule.data_type = "List" -> validate_list(value, rule, path, checked)
         [] rule.data_type = "String" -> validate_string(value, rule, path, checked)
         [] rule.data_type \in {"Integer", "Float"} ->
                validate_number(value, rule, path, checked)
         [] OTHER -> checked

\* Validate a single node in the configuration
validate_node(value, rule, path, acc, strict_arg) ==
    LET allow_unknown_keys == IF strict_arg THEN FALSE ELSE rule.allow_unknown_keys
        entered == [acc EXCEPT !.calls = Append(@,
                       [value |-> value, rule |-> rule, path |-> path,
                        strict |-> strict_arg])]
    IN IF ~validate_type(value, rule.data_type)
       THEN Push(entered, ValidationError(path, "Type mismatch", <<rule.data_type>>,
                 <<value_type_name(value)>>, rule.description))
       ELSE CASE rule.data_type = "Object" ->
                    validate_object(value, rule, path, entered, allow_unknown_keys)
              [] rule.data_type = "List" -> validate_list(value, rule, path, entered)
              [] rule.data_type = "String" -> validate_string(value, rule, path, entered)
              [] rule.data_type \in {"Integer", "Float"} ->
                    validate_number(value, rule, path, entered)
              [] OTHER -> entered

(***************************************************************************)
(* Schema::validate_schema_rule, Schema::from_file                         *)
(***************************************************************************)
SchemaOk == [kind |-> "Ok", why |-> <<>>]
SchemaError(why) == [kind |-> "Schema", why |-> <<why>>]
PatternError(why) == [kind |-> "Pattern", why |-> <<why>>]
\* .map_err(|e| ConfigGuardError::Schema(format!("... {}", ..., e)))
WrapSchema(prefix, e) ==
    IF e.kind = "Ok" THEN e ELSE [kind |-> "Schema", why |-> prefix \o e.why]

HasLengths(rule) == IsSome(rule.min_length) \/ IsSome(rule.max_length)
HasMinMax(rule) == IsSome(rule.min) \/ IsSome(rule.max)
LengthsInverted(rule) ==
    /\ IsSome(rule.min_length) /\ IsSome(rule.max_length)
    /\ rule.min_length[1] > rule.max_length[1]

RECURSIVE validate_schema_rule(_)
RECURSIVE SchemaKeys(_, _, _)
\* `for (key_name, key_rule) in keys { validate_schema_rule(key_rule)...? }`
\* from position i of the HashMap order on: the first failure is returned
SchemaKeys(order, i, keys) ==
    IF i > Len(order) THEN SchemaOk
    ELSE LET r == WrapSchema(<<"key ">> \o order[i],
                             validate_schema_rule(keys[order[i]]))
         IN IF r.kind # "Ok" THEN r ELSE SchemaKeys(order, i + 1, keys)

\* the min/max relationship check of a numeric rule
MinMaxCheck(rule) ==
    IF IsSome(rule.min) /\ IsSome(rule.max)
    THEN LET min_val == as_f64(rule.min[1])
             max_val == as_f64(rule.max[1])
         IN IF IsSome(min_val) /\ IsSome(max_val)
            THEN IF F64Lt(max_val[1], min_val[1])
                 THEN SchemaError("'min' cannot be greater than 'max'")
                 ELSE SchemaOk
            ELSE SchemaError("Non-numeric values used for 'min'/'max'")
    ELSE SchemaOk

\* the SchemaType::Object arm
schema_rule_object(rule) ==
    LET below == IF IsSome(rule.keys)
                 THEN SchemaKeys(HashIter(rule.keys[1]), 1, rule.keys[1])
                 ELSE SchemaOk
    IN IF below.kind # "Ok" THEN below
       ELSE IF IsSome(rule.items) THEN SchemaError("'items' on object")
       ELSE IF HasLengths(rule) THEN SchemaError("'min_length'/'max_length' on object")
       ELSE IF IsSome(rule.pattern) THEN SchemaError("'pattern' on object")
       ELSE IF HasMinMax(rule) THEN SchemaError("'min'/'max' on object")
       ELSE SchemaOk

\* (mutant) the recursion into `items` is lost
schema_rule_list_no_items(rule) ==
    IF IsSome(rule.keys) THEN SchemaError("'keys' on list")
    ELSE IF IsSome(rule.pattern) THEN SchemaError("'pattern' on list")
    ELSE IF HasMinMax(rule) THEN SchemaError("'min'/'max' on list")
    ELSE IF LengthsInverted(rule)
    THEN SchemaError("'min_length' cannot be greater than 'max_length'")
    ELSE SchemaOk

\* the SchemaType::List arm
schema_rule_list(rule) ==
    IF IsSome(rule.keys) THEN SchemaError("'keys' on list")
    ELSE IF IsSome(rule.pattern) THEN SchemaError("'pattern' on list")
    ELSE IF HasMinMax(rule) THEN SchemaError("'min'/'max' on list")
    ELSE LET below == IF IsSome(rule.items)
                      THEN WrapSchema(<<"list items ">>,
                                      validate_schema_rule(rule.items[1]))
                      ELSE SchemaOk
         IN IF below.kind # "Ok" THEN below
            ELSE IF LengthsInverted(rule)
            THEN SchemaError("'min_length' cannot be greater than 'max_length'")
            ELSE SchemaOk

\* (mutant) the pattern is not compiled at load time
schema_rule_string_no_regex(rule) ==
    IF IsSome(rule.keys) THEN SchemaError("'keys' on string")
    ELSE IF IsSome(rule.items) THEN SchemaError("'items' on string")
    ELSE IF HasMinMax(rule) THEN SchemaError("'min'/'max' on string")
    ELSE IF LengthsInverted(rule)
    THEN SchemaError("'min_length' cannot be greater than 'max_length'")
    ELSE SchemaOk

\* the SchemaType::String arm
schema_rule_string(rule) ==
    IF IsSome(rule.keys) THEN SchemaError("'keys' on string")
    ELSE IF IsSome(rule.items) THEN SchemaError("'items' on string")
    ELSE IF HasMinMax(rule) THEN SchemaError("'min'/'max' on string")
    ELSE IF LengthsInverted(rule)
    THEN SchemaError("'min_length' cannot be greater than 'max_length'")
    ELSE IF IsSome(rule.pattern) /\ ~RegexCompiles(rule.pattern[1])
    THEN PatternError("Invalid regex pattern")
    ELSE SchemaOk

\* the SchemaType::Integer | SchemaType::Float arm
schema_rule_number(rule) ==
    IF IsSome(rule.keys) THEN SchemaError("'keys' on numeric type")
    ELSE IF IsSome(rule.items) THEN SchemaError("'items' on numeric type")
    ELSE IF HasLengths(rule) THEN SchemaError("'min_length'/'max_length' on numeric type")
    ELSE IF IsSome(rule.pattern) THEN SchemaError("'pattern' on numeric type")
    ELSE MinMaxCheck(rule)

\* the SchemaType::Boolean | SchemaType::Null arm and the SchemaType::Any arm,
\* which make the same five checks
schema_rule_plain(rule) ==
    IF IsSome(rule.keys) THEN SchemaError("'keys' is only valid for type 'object'")
    ELSE IF IsSome(rule.items) THEN SchemaError("'items' is only valid for type 'list'")
    ELSE IF HasLengths(rule) THEN SchemaError("'min_length'/'max_length' not valid")
    ELSE IF IsSome(rule.pattern) THEN SchemaError("'pattern' is only valid for type 'string'")
    ELSE IF HasMinMax(rule) THEN SchemaError("'min'/'max' only valid for numeric types")
    ELSE SchemaOk

\* Validate the schema itself for correctness
validate_schema_rule(rule) ==
    CASE rule.data_type = "Object" -> schema_rule_object(rule)
      [] rule.data_type = "List" -> schema_rule_list(rule)
      [] rule.data_type = "String" -> schema_rule_string(rule)
      [] rule.data_type \in {"Integer", "Float"} -> schema_rule_number(rule)
      [] rule.data_type \in {"Boolean", "Null", "Any"} -> schema_rule_plain(rule)

\* a schema file that cannot be read (it is not there, or another io error),
\* and one that serde_yaml cannot deserialize into a SchemaRule
SchemaFileNotFound == [unread |-> "NotFound"]
SchemaFileUnreadable == [unread |-> "Other"]
SchemaFileUnparsable == [unparsed |-> TRUE]

\* (mutant) a failure of validate_schema_rule is passed on as it is
from_file_unwrapped(root) ==
    IF "unread" \in DOMAIN root
    THEN [ok |-> FALSE, schema |-> None,
          err |-> IF root.unread = "NotFound" THEN "FileNotFound" ELSE "IO"]
    ELSE IF "unparsed" \in DOMAIN root
    THEN [ok |-> FALSE, schema |-> None, err |-> "Schema"]
    ELSE LET r == validate_schema_rule(root)
         IN IF r.kind = "Ok"
            THEN [ok |-> TRUE, schema |-> Some([root |-> root]), err |-> "none"]
            ELSE [ok |-> FALSE, schema |-> None, err |-> r.kind]

\* Schema::from_file: the file is read, deserialized into `root` and checked;
\* any failure of validate_schema_rule is re-wrapped as a Schema error
from_file(root) ==
    IF "unread" \in DOMAIN root
    THEN [ok |-> FALSE, schema |-> None,
          err |-> IF root.unread = "NotFound" THEN "FileNotFound" ELSE "IO"]
    ELSE IF "unparsed" \in DOMAIN root
    THEN [ok |-> FALSE, schema |-> None, err |-> "Schema"]
    ELSE LET r == validate_schema_rule(root)
         IN IF r.kind = "Ok"
            THEN [ok |-> TRUE, schema |-> Some([root |-> root]), err |-> "none"]
            ELSE [ok |-> FALSE, schema |-> None, err |-> "Schema"]

(***************************************************************************)
(* find_line_numbers: the raw text is scanned once for key names, and each *)
(* error is given the line recorded for the last component of its path     *)
(***************************************************************************)
\* (mutant) an entry already in the map is kept: the first line of a key wins
insert_if_vacant(map, key, line) ==
    [k \in DOMAIN map \cup {key} |-> IF k \in DOMAIN map THEN map[k] ELSE line]
\* HashMap::insert: an entry already in the map is overwritten
insert(map, key, line) ==
    [k \in DOMAIN map \cup {key} |-> IF k = key THEN line ELSE map[k]]

\* the Yaml arm, one line: the text before the first ':' is the key; a key
\* that ends with ']' is recorded under its text before the first '[' as well
ScanYamlLine(path_to_line, line, n) ==
    LET key == trim(split_next(trim(line), ":"))
    IN IF key # <<>> /\ ~starts_with(key, "#")
       THEN LET with_key == insert(path_to_line, key, n)
            IN IF ends_with(key, "]")
               THEN insert(with_key, split_next(key, "["), n)
               ELSE with_key
       ELSE path_to_line
\* the Json arm, one line: only a line holding '"' and ':' names a key
ScanJsonLine(path_to_line, line, n) ==
    LET trimmed == trim(line)
        key == trim_matches(trim_matches(trim(split_next(trimmed, ":")), "\""), "\"")
    IN IF contains(trimmed, "\"") /\ contains(trimmed, ":") /\ key # <<>>
       THEN insert(path_to_line, key, n)
       ELSE path_to_line
RECURSIVE ScanLines(_, _, _, _)
\* for (i, line) in lines.iter().enumerate(), the line numbered i + 1
ScanLines(ls, n, format_of, path_to_line) ==
    IF n > Len(ls) THEN path_to_line
    ELSE ScanLines(ls, n + 1, format_of,
                   IF format_of = "Yaml" THEN ScanYamlLine(path_to_line, ls[n], n)
                   ELSE ScanJsonLine(path_to_line, ls[n], n))
\* (mutant) an error for which no line is found is dropped from the list
find_line_numbers_drop_unmapped(text, errs, format_of) ==
    LET path_to_line == ScanLines(lines(text), 1, format_of, <<>>)
        last_key(e) == LET c == split_last(e.path, ".")
                       IN IF contains(c, "[") THEN split_next(c, "[") ELSE c
        found == SelectSeq(errs, LAMBDA e : last_key(e) \in DOMAIN path_to_line)
    IN [i \in 1..Len(found) |->
           [found[i] EXCEPT !.line = Some(path_to_line[last_key(found[i])])]]
\* the last component of the path, without its array indices
clean_component(path) ==
    LET last_component == split_last(path, ".")
    IN IF contains(last_component, "[") THEN split_next(last_component, "[")
       ELSE last_component
find_line_numbers(text, errs, format_of) ==
    LET path_to_line == ScanLines(lines(text), 1, format_of, <<>>)
    IN [i \in 1..Len(errs) |->
           IF clean_component(errs[i].path) \in DOMAIN path_to_line
           THEN [errs[i] EXCEPT !.line = Some(path_to_line[clean_component(errs[i].path)])]
           ELSE errs[i]]

\* the Config validate is given: the parsed document, its format and, when
\* the caller kept it, the raw text
Config(data, format_of, text) == [data |-> data, format |-> format_of, content |-> text]

\* ValidationResult / ConfigGuardResult<ValidationResult> of validate
Valid == [kind |-> "Valid"]
AllValidationErrors(errs) == [kind |-> "AllValidationErrors", errors |-> errs]
Failed(kind) == [kind |-> kind]

\* (mutant) the failure carries only the first error, as a sample
validate_first_error_only(cfg, sch, strict_flag) ==
    LET acc == validate_node(cfg.data, sch.root, <<>>, EmptyAcc, strict_flag)
        errs == IF IsSome(cfg.content)
                THEN find_line_numbers(cfg.content[1], acc.errors, cfg.format)
                ELSE acc.errors
    IN [collected |-> errs, calls |-> acc.calls,
        result |-> IF acc.err # "none" THEN Failed(acc.err)
                   ELSE IF errs = <<>> THEN Valid
                   ELSE AllValidationErrors(<<errs[1]>>)]

\* validate: one walk from the root with an empty accumulator; when the walk
\* was not aborted and the Config carries its raw text, the errors are given
\* their lines; then the result is decided from the error list.  `collected`
\* is the error Vec as validate left it.
validate(cfg, sch, strict_flag) ==
    LET acc == validate_node(cfg.data, sch.root, <<>>, EmptyAcc, strict_flag)
        errs == IF acc.err = "none" /\ IsSome(cfg.content)
                THEN find_line_numbers(cfg.content[1], acc.errors, cfg.format)
                ELSE acc.errors
    IN [collected |-> errs, calls |-> acc.calls,
        result |-> IF acc.err # "none" THEN Failed(acc.err)
                   ELSE IF errs = <<>> THEN Valid
                   ELSE AllValidationErrors(errs)]

(***************************************************************************)
(* The run: the schema file is loaded, then the document is validated.     *)
(***************************************************************************)
\* Schema::from_file, as run() calls it; a failure ends the run
FromFile ==
    /\ pc = "start"
    /\ LET r == from_file(rawSchema)
       IN /\ schema' = r.schema
          /\ schemaErr' = r.err
          /\ pc' = IF r.ok THEN "loaded" ELSE "schema_failed"
    /\ UNCHANGED <<rawSchema, config, textVars, strict, hashOrder, errors, calls, outcome, prev,
                   cliVars>>

\* validate(&config, &schema, strict), as validate_single_config calls it
Validate ==
    /\ pc = "loaded"
    /\ LET v == validate(Config(config, config_format, content), schema[1], strict)
       IN /\ errors' = v.collected
          /\ calls' = v.calls
          /\ outcome' = Some(v.result)
    /\ pc' = "validated"
    /\ UNCHANGED <<rawSchema, schema, schemaErr, config, textVars, strict, hashOrder, prev,
                   cliVars>>

Next == FromFile \/ Validate

\* what every run starts from, whatever the schema and the document are
Fresh ==
    /\ pc = "start"
    /\ schema = None
    /\ schemaErr = "none"
    /\ errors = <<>>
    /\ calls = <<>>
    /\ outcome = None
    /\ prev = None
    /\ cursor = 1
    /\ errors_found = FALSE
    /\ counts = [processed |-> 0, valid |-> 0, skipped |-> 0]
    /\ results = <<>>
    /\ printed = <<>>
    /\ run_result = None
    /\ exited = None

\* a Config that carries no raw text, as Config::from_str builds it
NoContent ==
    /\ content = None
    /\ config_format = "Yaml"

\* validate called on a Config built by the caller: no file list, no output
NoCli ==
    /\ files = <<>>
    /\ format = "text"
    /\ directory = FALSE

(***************************************************************************)
(* The command line: Config::from_file, validate_single_config, the file   *)
(* loops of validate_configs and process_directory, and main's exit        *)
(***************************************************************************)
\* a file on disk: its extension ("" when it has none), whether it can be
\* read, and the document its content parses to (None when it does not parse)
File(ext, readable, parsed) == [ext |-> ext, readable |-> readable, parsed |-> parsed]

\* ConfigGuardError values other than the ones validate and from_file return
UnsupportedFormat == [kind |-> "UnsupportedFormat"]
FileRead == [kind |-> "FileRead"]
ParseYaml == [kind |-> "ParseYaml"]
ParseJson == [kind |-> "ParseJson"]
\* the placeholder validate_configs and validate_directories fail with
OneOrMoreFailed ==
    ValidationError(<<>>, "One or more configurations failed validation",
                    <<"Valid configuration">>, <<"Invalid configuration">>, None)
ValidationErrors(count) ==
    [kind |-> "ValidationErrors", count |-> count, source |-> OneOrMoreFailed]

\* (mutant) every failure exits with the same code
exit_code_generic(err) == 1
\* ConfigGuardError::exit_code
exit_code(err) ==
    CASE err.kind = "FileNotFound" -> 2
      [] err.kind \in {"FileRead", "FileWrite"} -> 3
      [] err.kind \in {"ParseYaml", "ParseJson"} -> 4
      [] err.kind = "UnsupportedFormat" -> 5
      [] err.kind \in {"Validation", "ValidationErrors", "AllValidationErrors"} -> 10
      [] err.kind = "Schema" -> 11
      [] err.kind = "Pattern" -> 12
      [] err.kind = "Cli" -> 20
      [] err.kind \in {"Serialization", "Encoding", "IO"} -> 30
      [] OTHER -> 99

\* detect_format: the extensions a Config is read from
detect_format(file) == file.ext \in {"yaml", "yml", "json"}
\* Config::from_file
Config_from_file(file) ==
    IF ~detect_format(file) THEN [ok |-> FALSE, data |-> None, err |-> UnsupportedFormat]
    ELSE IF ~file.readable THEN [ok |-> FALSE, data |-> None, err |-> FileRead]
    ELSE IF file.parsed = None
    THEN [ok |-> FALSE, data |-> None,
          err |-> IF file.ext = "json" THEN ParseJson ELSE ParseYaml]
    ELSE [ok |-> TRUE, data |-> file.parsed, err |-> [kind |-> "none"],
          format |-> IF file.ext = "json" THEN "Json" ELSE "Yaml"]

\* one thing written to stdout or stderr: its fixed text, the file it is
\* about (0 when none), the errors it renders and the fields of each error
\* that it renders
Item(stream, text, file, errs, fields) ==
    [stream |-> stream, text |-> text, file |-> file, errors |-> errs, fields |-> fields]
AllFields == {"path", "message", "expected", "actual", "description"}

\* what the Display of a ConfigGuardError renders of the validation errors:
\* for AllValidationErrors the count and the path and message of the first
DisplayErrors(err) ==
    CASE err.kind = "AllValidationErrors" ->
            IF err.errors = <<>> THEN <<>> ELSE <<err.errors[1]>>
      [] err.kind = "ValidationErrors" -> <<err.source>>
      [] OTHER -> <<>>
DisplayFields(err) ==
    CASE err.kind = "AllValidationErrors" -> {"path", "message"}
      [] err.kind = "ValidationErrors" -> {"path", "message", "expected", "actual"}
      [] OTHER -> {}

\* format_validation_result: Invalid is rendered with every field and the line
format_validation_result(result, output_format) ==
    IF result.kind = "Valid"
    THEN IF output_format = "text"
         THEN Item("stdout", "Configuration validation passed.", 0, <<>>, {})
         ELSE Item("stdout", "{valid: true, error_count: 0, errors: []}", 0, <<>>, {})
    ELSE IF output_format = "text"
         THEN Item("stdout", "Configuration validation failed with {} errors:", 0,
                   result.errors, AllFields \cup {"line"})
         ELSE Item("stdout", "{valid: false, error_count: {}, errors: [...]}", 0,
                   result.errors, AllFields \cup {"line"})

\* validate_single_config: ret is "Ok(false)" (valid) or "Err"; `out` is what
\* it printed; the rest records whether the file loaded and what validate found
\* its `match validate(&config, schema, strict)`, v being what validate returned
MatchValidate(data, v, output_format) ==
    IF v.result.kind = "Valid"
    THEN [ret |-> "Ok(false)", err |-> [kind |-> "none"],
          out |-> <<format_validation_result(v.result, output_format)>>,
          loaded |-> TRUE, data |-> data, collected |-> v.collected,
          calls |-> v.calls, result |-> Some(v.result)]
    ELSE [ret |-> "Err", err |-> v.result, out |-> <<>>,
          loaded |-> TRUE, data |-> data, collected |-> v.collected,
          calls |-> v.calls, result |-> Some(v.result)]
validate_single_config(file, sch, strict_flag, output_format) ==
    LET c == Config_from_file(file) IN
    IF ~c.ok
    THEN [ret |-> "Err", err |-> c.err, out |-> <<>>, loaded |-> FALSE,
          data |-> None, collected |-> <<>>, calls |-> <<>>, result |-> None]
    ELSE MatchValidate(c.data, validate(Config(c.data[1], c.format, None), sch, strict_flag),
                       output_format)

Success == [kind |-> "Success"]
Failure(err) == [kind |-> "Failure", err |-> err]

\* (mutant) any failing file ends the loop
PropagatesAnyError(r, n) == r.ret = "Err"
\* validate_configs: `if config_paths.len() == 1 { return RunResult::Failure(err) }`
PropagatesError(r, n) == r.ret = "Err" /\ n = 1

\* what the loop keeps of one file
FileResult(i, considered, r) ==
    [file |-> i, considered |-> considered, loaded |-> r.loaded,
     validated |-> IsSome(r.result), collected |-> r.collected, ret |-> r.ret]

\* the body of `for config_path in config_paths` and what follows the loop,
\* r being what validate_single_config returned for the file at the cursor
ConfigsTurn(r) ==
    /\ LET many == Len(files) > 1
           mark == IF r.ret = "Ok(false)"
                   THEN IF many /\ format = "text"
                        THEN <<Item("stdout", "{}: Valid", cursor, <<>>, {})>>
                        ELSE <<>>
                   ELSE IF format = "text"
                        THEN <<Item("stderr", "Error processing {}: {}", cursor,
                                    DisplayErrors(r.err), DisplayFields(r.err))>>
                        ELSE <<>>
           found == errors_found \/ r.ret = "Err"
           last == cursor = Len(files)
       IN /\ printed' = printed \o r.out \o mark
          /\ errors_found' = found
          /\ results' = Append(results, FileResult(cursor, TRUE, r))
          /\ cursor' = cursor + 1
          /\ run_result' = IF PropagatesError(r, Len(files)) THEN Some(Failure(r.err))
                           ELSE IF last
                           THEN Some(IF found THEN Failure(ValidationErrors(1)) ELSE Success)
                           ELSE None
          /\ pc' = IF PropagatesError(r, Len(files)) \/ last THEN "returned" ELSE "loaded"
          /\ config' = IF r.loaded THEN r.data[1] ELSE config
          /\ errors' = IF r.loaded THEN r.collected ELSE errors
          /\ calls' = IF r.loaded THEN r.calls ELSE calls
          /\ outcome' = IF r.loaded THEN r.result ELSE outcome

\* validate_configs, one turn of `for config_path in config_paths`: the file
\* is loaded and validated, the outcome is printed, and on the last file (or
\* on the error of an only file) the function returns
ValidateConfigsStep ==
    /\ pc = "loaded"
    /\ ~directory
    /\ cursor <= Len(files)
    /\ ConfigsTurn(validate_single_config(files[cursor], schema[1], strict, format))
    /\ UNCHANGED <<rawSchema, schema, schemaErr, textVars, strict, hashOrder, prev,
                   files, format, directory, counts, exited>>

\* a directory entry validate_single_config is not called for
NotAttempted ==
    [ret |-> "skipped", err |-> [kind |-> "none"], out |-> <<>>, loaded |-> FALSE,
     data |-> None, collected |-> <<>>, calls |-> <<>>, result |-> None]

\* the body of `for entry in entries` and what follows the loop, f being the
\* entry at the cursor and r what validate_single_config returned for it
DirectoryTurn(f, compatible, r) ==
    /\ LET header == IF cursor = 1 /\ format = "text"
                     THEN <<Item("stdout", "Processing directory: {}", 0, <<>>, {})>>
                     ELSE <<>>
           mark == IF ~compatible \/ format # "text" THEN <<>>
                   ELSE IF r.ret = "Ok(false)"
                   THEN <<Item("stdout", "{}: Valid", cursor, <<>>, {})>>
                   ELSE <<Item("stdout", "{}: Error - {}", cursor,
                               DisplayErrors(r.err), DisplayFields(r.err))>>
           now == [processed |-> counts.processed + (IF compatible THEN 1 ELSE 0),
                   valid |-> counts.valid + (IF r.ret = "Ok(false)" THEN 1 ELSE 0),
                   skipped |-> counts.skipped
                                 + (IF ~compatible /\ f.ext # "" THEN 1 ELSE 0)]
           last == cursor = Len(files)
           found == now.processed > 0 /\ now.processed # now.valid
           summary == IF format = "text"
                      THEN <<Item("stdout", "Validation Summary:", 0, <<>>, {})>>
                      ELSE IF now.processed > 0
                      THEN <<Item("stdout", "{directory, processed, valid, invalid, skipped}",
                                  0, <<>>, {})>>
                      ELSE <<>>
       IN /\ printed' = printed \o header \o r.out \o mark
                          \o (IF last THEN summary ELSE <<>>)
          /\ counts' = now
          /\ errors_found' = IF last THEN found ELSE errors_found
          /\ results' = Append(results, FileResult(cursor, compatible, r))
          /\ cursor' = cursor + 1
          /\ run_result' = IF last
                           THEN Some(IF found
                                     THEN Failure(ValidationErrors(now.processed - now.valid))
                                     ELSE Success)
                           ELSE None
          /\ pc' = IF last THEN "returned" ELSE "loaded"
          /\ config' = IF r.loaded THEN r.data[1] ELSE config
          /\ errors' = IF r.loaded THEN r.collected ELSE errors
          /\ calls' = IF r.loaded THEN r.calls ELSE calls
          /\ outcome' = IF r.loaded THEN r.result ELSE outcome

\* process_directory, one turn of `for entry in entries` over the entries of
\* the one directory named on the command line; after the last entry the
\* function returns its counts and validate_directories prints the summary
\* and returns
ProcessDirectoryStep ==
    /\ pc = "loaded"
    /\ directory
    /\ cursor <= Len(files)
    /\ DirectoryTurn(files[cursor], detect_format(files[cursor]),
                     IF detect_format(files[cursor])
                     THEN validate_single_config(files[cursor], schema[1], strict, "text")
                     ELSE NotAttempted)
    /\ UNCHANGED <<rawSchema, schema, schemaErr, textVars, strict, hashOrder, prev,
                   files, format, directory, exited>>

\* what main prints for RunResult::Failure(err)
MainOutput(err, output_format) ==
    IF output_format = "json"
    THEN IF err.kind = "AllValidationErrors"
         THEN Item("stdout", "{valid: false, error_count: {}, errors: [...]}", 0,
                   err.errors, AllFields)
         ELSE IF err.kind = "ValidationErrors"
         \* extract_validation_errors: the source and, for count > 1, a placeholder
         THEN Item("stdout", "{valid: false, error_count: {}, errors: [...]}", 0,
                   <<err.source>>, {"path", "message", "expected", "actual"})
         ELSE Item("stdout", "{valid: false, error_count: 1, errors: [{message, path, exit_code}]}",
                   0, <<>>, {})
    ELSE IF err.kind = "AllValidationErrors"
         THEN Item("stderr", "Error: {} validation errors found:", 0, err.errors, AllFields)
         ELSE Item("stderr", "Error: {}", 0, DisplayErrors(err), DisplayFields(err))

\* main, once run() has returned: the failure is printed and the process exits
Exit ==
    /\ pc \in {"returned", "schema_failed"}
    /\ files # <<>>
    /\ LET result == IF pc = "schema_failed" THEN Failure([kind |-> schemaErr])
                     ELSE run_result[1]
       IN IF result.kind = "Success"
          THEN exited' = Some(0) /\ printed' = printed
          ELSE /\ exited' = Some(exit_code(result.err))
               /\ printed' = Append(printed, MainOutput(result.err, format))
    /\ pc' = "exited"
    /\ UNCHANGED <<rawSchema, schema, schemaErr, config, textVars, strict, hashOrder, errors,
                   calls, outcome, prev, files, format, directory, cursor, errors_found, counts,
                   results, run_result>>

NextCli == FromFile \/ ValidateConfigsStep \/ ProcessDirectoryStep \/ Exit

(***************************************************************************)
(* Bounded inputs of Spec: schemas and documents of objects, lists and     *)
(* scalars, nested up to three levels.                                     *)
(***************************************************************************)
MaxListLen == 2

KA == <<"a">>
KB == <<"b">>
KeyNames == {KA, KB}
HashOrders == {<<KA, KB>>, <<KB, KA>>}

\* every HashMap<String, rule> with keys among KeyNames and rules in C
MapsOver(C) == UNION {[D -> C] : D \in SUBSET KeyNames}
\* every sequence over S of length at most n
SeqsUpTo(S, n) == UNION {[1..m -> S] : m \in 0..n}

IntLeaf(req) == [Rule("Integer") EXCEPT !.required = req, !.max = Some(VInt(1))]
StrLeaf(pat) == [Rule("String") EXCEPT !.pattern = Some(pat)]
LeafRules == {IntLeaf(r) : r \in BOOLEAN}

ObjectRules(C) ==
    {[Rule("Object") EXCEPT !.required = r, !.allow_unknown_keys = u, !.keys = k] :
        r \in BOOLEAN, u \in BOOLEAN, k \in {None} \cup {Some(f) : f \in MapsOver(C)}}
ListRules(C, lens) ==
    {[Rule("List") EXCEPT !.required = r, !.min_length = m, !.items = it] :
        r \in BOOLEAN, m \in lens, it \in {None} \cup {Some(c) : c \in C}}

\* the rule of a list element that is an object with one required key
ItemObjects ==
    {[Rule("Object") EXCEPT !.allow_unknown_keys = u,
                            !.keys = Some([k \in {KA} |-> IntLeaf(TRUE)])] : u \in BOOLEAN}

ChildRules ==
    LeafRules \cup {StrLeaf(<<"^", "a">>), StrLeaf(<<"*", "[">>)}
        \cup ObjectRules(LeafRules)
        \cup ListRules(LeafRules \cup ItemObjects, {None, Some(1)})

StructSchemas ==
    {[Rule("Object") EXCEPT !.allow_unknown_keys = u, !.keys = Some(f)] :
        u \in BOOLEAN,
        f \in {[k \in {KA} |-> c] : c \in ChildRules}
               \cup {[k \in KeyNames |-> IF k = KA THEN c ELSE IntLeaf(TRUE)] :
                        c \in ChildRules}}
    \cup LeafRules
    \cup ListRules(ItemObjects, {None})

InnerValues == {VInt(1), VInt(2), VString(<<"b">>)}
ElementValues == {VInt(1), VString(<<"b">>), VMapping(<<>>),
                  VMapping(<<Entry(VString(KB), VInt(2))>>)}
\* the mappings with keys among a, b (in that order) and values in C
MappingsOver(C) ==
    {VMapping(<<>>)}
    \cup {VMapping(<<Entry(VString(k), v)>>) : k \in KeyNames, v \in C}
    \cup {VMapping(<<Entry(VString(KA), v), Entry(VString(KB), w)>>) : v \in C, w \in C}
ChildValues ==
    InnerValues \cup {VFloat("fin", 4)}
        \cup MappingsOver(InnerValues)
        \cup {VSequence(q) : q \in SeqsUpTo(ElementValues, MaxListLen)}

StructDocs ==
    {VMapping(<<>>), VMapping(<<Entry(VString(KB), VInt(2))>>), VInt(2)}
    \cup {VMapping(<<Entry(VString(KA), v)>>) : v \in ChildValues}
    \cup {VMapping(<<Entry(VString(KA), v), Entry(VString(KB), VInt(2))>>) :
            v \in ChildValues}
    \cup {VSequence(q) : q \in SeqsUpTo({VMapping(<<>>),
                                          VMapping(<<Entry(VString(KB), VInt(2))>>)},
                                         MaxListLen)}

Init ==
    /\ rawSchema \in StructSchemas
    /\ config \in StructDocs
    /\ strict \in BOOLEAN
    /\ hashOrder \in HashOrders
    /\ Fresh
    /\ NoCli
    /\ NoContent

Spec == Init /\ [][Next]_vars

(***************************************************************************)
(* Vocabulary of the properties                                            *)
(***************************************************************************)
Validated == pc = "validated"
Result == outcome[1]
CallIndices == 1..Len(calls)

\* path q names the node at path p or a node below it
IsUnder(p, q) ==
    /\ IsPrefixOf(p, q)
    /\ Len(q) = Len(p) \/ q[Len(p) + 1] \in {".", "["}
ErrorsUnder(errs, p) == SelectSeq(errs, LAMBDA e : IsUnder(p, e.path))
\* the part of the error list that the invocation c and the invocations below
\* it appended ("Required object is empty" at c's own path is its parent's)
ErrorsOfCall(errs, c) ==
    SelectSeq(errs, LAMBDA e : /\ IsUnder(c.path, e.path)
                               /\ ~(e.path = c.path /\ e.message = "Required object is empty"))
CountErrors(errs, path, message) ==
    Cardinality({i \in 1..Len(errs) : errs[i].path = path /\ errs[i].message = message})
\* a path made of `.key` steps only
ThroughKeys(p) == \A n \in 1..Len(p) : p[n] # "["

\* the invocation matched a mapping against an object rule that declares keys
ObjectCall(c) ==
    c.rule.data_type = "Object" /\ c.value.tag = "Mapping" /\ IsSome(c.rule.keys)
\* the invocation matched a list against a list rule that has an items rule
ListCall(c) ==
    c.rule.data_type = "List" /\ c.value.tag = "Sequence" /\ IsSome(c.rule.items)
\* the string keys of the mapping of c that its rule does not declare
UndeclaredKeys(c) ==
    {c.value.entries[j].key.s : j \in {n \in 1..Len(c.value.entries) :
        /\ c.value.entries[n].key.tag = "String"
        /\ c.value.entries[n].key.s \notin DOMAIN c.rule.keys[1]}}
UnknownKeyReported(c, k) ==
    \E n \in 1..Len(errors) :
        errors[n].path = KeyPath(c.path, k) /\ errors[n].message = "Unknown key"

RECURSIVE RulesOf(_)
\* every rule of a schema tree
RulesOf(rule) ==
    {rule}
    \cup (IF IsSome(rule.keys)
          THEN UNION {RulesOf(rule.keys[1][k]) : k \in DOMAIN rule.keys[1]} ELSE {})
    \cup (IF IsSome(rule.items) THEN RulesOf(rule.items[1]) ELSE {})

(***************************************************************************)
(* C1..C7: the walk                                                        *)
(***************************************************************************)
\* C1: validate never short-circuits.  The walk is never aborted; every
\* child of a matched object (each entry with a declared key) and of a
\* matched list (each element) is visited; what an invocation and the ones
\* below it contributed to the final list is exactly what validating that
\* subtree alone yields, whatever was found before or beside it; and the
\* returned list is the whole accumulator.
C1_NeverShortCircuits ==
    Validated =>
        /\ Result.kind \in {"Valid", "AllValidationErrors"}
        /\ Result.kind = "AllValidationErrors" => Result.errors = errors
        /\ \A i \in CallIndices :
              LET c == calls[i] IN
              /\ ErrorsOfCall(errors, c)
                    = validate_node(c.value, c.rule, c.path, EmptyAcc, c.strict).errors
              /\ ObjectCall(c) =>
                    \A j \in 1..Len(c.value.entries) :
                        LET e == c.value.entries[j] IN
                        (e.key.tag = "String" /\ e.key.s \in DOMAIN c.rule.keys[1]) =>
                            \E d \in CallIndices :
                                /\ calls[d].path = KeyPath(c.path, e.key.s)
                                /\ calls[d].value = e.val
                                /\ calls[d].rule = c.rule.keys[1][e.key.s]
              /\ ListCall(c) =>
                    \A n \in 1..Len(c.value.items) :
                        \E d \in CallIndices :
                            /\ calls[d].path = ItemPath(c.path, n - 1)
                            /\ calls[d].value = c.value.items[n]
                            /\ calls[d].rule = c.rule.items[1]

\* two sibling keys both have violations below them, and so do two elements
\* of one list
C1_Witness ==
    /\ Validated
    /\ ErrorsUnder(errors, <<".", "a">>) # <<>>
    /\ ErrorsUnder(errors, <<".", "b">>) # <<>>
    /\ ErrorsUnder(errors, <<".", "a", "[", "0", "]">>) # <<>>
    /\ ErrorsUnder(errors, <<".", "a", "[", "1", "]">>) # <<>>

\* C2 (as claimed): under strict=true every undeclared key of every mapping
\* matched against an object rule declaring keys, at any depth reached through
\* keys, is reported as Unknown key.
C2_StrictReportsEveryUnknownKey ==
    (Validated /\ strict) =>
        \A i \in CallIndices :
            (ObjectCall(calls[i]) /\ ThroughKeys(calls[i].path)) =>
                \A k \in UndeclaredKeys(calls[i]) : UnknownKeyReported(calls[i], k)

\* C3 (as claimed): with strict=false and allow_unknown_keys true on every
\* object rule, no Unknown key error is ever emitted.
C3_LenientNeverReportsUnknownKey ==
    (/\ Validated
     /\ ~strict
     /\ \A r \in RulesOf(schema[1].root) :
            r.data_type = "Object" => r.allow_unknown_keys) =>
        \A n \in 1..Len(errors) : errors[n].message # "Unknown key"

\* C4 (as claimed): with strict=false, an object rule with
\* allow_unknown_keys: false makes undeclared keys reported for its object and
\* for every descendant object reached through keys.
C4_DescendantsInheritRestriction ==
    (Validated /\ ~strict) =>
        \A i \in CallIndices, j \in CallIndices :
            LET d == calls[i]
                c == calls[j]
            IN (/\ ObjectCall(d) /\ ~d.rule.allow_unknown_keys
                /\ ObjectCall(c)
                /\ IsUnder(d.path, c.path)
                /\ ThroughKeys(SubSeq(c.path, Len(d.path) + 1, Len(c.path)))) =>
                   \A k \in UndeclaredKeys(c) : UnknownKeyReported(c, k)

\* C5: a node whose value does not match its rule's type gets exactly one
\* error, Type mismatch at its own path; nothing else is reported at or below
\* it and nothing below it is visited.
C5_TypeMismatchSuppressesTheRest ==
    Validated =>
        \A i \in CallIndices :
            LET c == calls[i] IN
            ~validate_type(c.value, c.rule.data_type) =>
                /\ Len(ErrorsUnder(errors, c.path)) = 1
                /\ ErrorsUnder(errors, c.path)[1].message = "Type mismatch"
                /\ ErrorsUnder(errors, c.path)[1].path = c.path
                /\ \A j \in CallIndices : IsUnder(c.path, calls[j].path) => j = i

\* a mapping with entries, and a float, sit where another type is expected
\* while the rest of the document has errors of its own
C5_Witness ==
    /\ Validated
    /\ \E i \in CallIndices :
          /\ ~validate_type(calls[i].value, calls[i].rule.data_type)
          /\ calls[i].path # <<>>
          /\ \/ calls[i].value.tag = "Mapping" /\ calls[i].value.entries # <<>>
             \/ calls[i].value.tag = "Number" /\ calls[i].rule.data_type = "Integer"
          /\ Len(errors) >= 2

\* C6: for every mapping matched against an object rule and every declared
\* key, the list holds exactly one Required key missing at <path>.<key> when
\* the key is required and absent, and none otherwise.
C6_RequiredKeyMissingExactlyOnce ==
    Validated =>
        \A i \in CallIndices :
            LET c == calls[i] IN
            ObjectCall(c) =>
                \A k \in DOMAIN c.rule.keys[1] :
                    CountErrors(errors, KeyPath(c.path, k), "Required key missing")
                        = IF /\ c.rule.keys[1][k].required
                             /\ ~IsSome(MapGet(c.value.entries, VString(k)))
                          THEN 1 ELSE 0

\* a required key is missing from a list element while a sibling key of the
\* root is invalid
C6_Witness ==
    /\ Validated
    /\ CountErrors(errors, <<".", "a", "[", "1", "]", ".", "a">>, "Required key missing") = 1
    /\ CountErrors(errors, <<".", "b">>, "Value too large") = 1

\* C7: validate returns Valid iff the accumulator is empty after the walk;
\* otherwise it fails with AllValidationErrors carrying the whole, non-empty
\* accumulator.
C7_ValidIffNoErrors ==
    Validated =>
        /\ Result.kind = "Valid" <=> errors = <<>>
        /\ Result.kind # "Valid" =>
              /\ Result.kind = "AllValidationErrors"
              /\ Result.errors = errors
              /\ errors # <<>>

C7_Witness == Validated /\ Result.kind = "AllValidationErrors" /\ Len(errors) >= 3

(***************************************************************************)
(* SpecNum: a numeric rule with bounds and an enum, against numbers        *)
(***************************************************************************)
MaxEnumLen == 2

EnumEntries == {VInt(1), VInt(2), VString(<<"x">>)}
NumSchemas ==
    {[Rule(t) EXCEPT !.enum_values = e, !.min = lo, !.max = hi] :
        t \in {"Integer", "Float"},
        e \in {None} \cup {Some(q) : q \in SeqsUpTo(EnumEntries, MaxEnumLen)},
        lo \in {None, Some(VInt(1)), Some(VFloat("fin", 3))},
        hi \in {None, Some(VInt(1)), Some(VBigInt(0))}}
NumDocs ==
    {VInt(0), VInt(1), VInt(2), VFloat("fin", 2), VFloat("fin", 3),
     VBigInt(0), VBigInt(1), VBigInt(2),
     VFloat("nan", 0), VFloat("pinf", 0), VFloat("ninf", 0), VString(<<"x">>)}

InitNum ==
    /\ rawSchema \in NumSchemas
    /\ config \in NumDocs
    /\ strict \in BOOLEAN
    /\ hashOrder = <<KA, KB>>
    /\ Fresh
    /\ NoCli
    /\ NoContent

SpecNum == InitNum /\ [][Next]_vars

\* the invocation validated a finite number of the rule's own numeric type
\* against a rule with an enum
FiniteNumberCall(c) ==
    /\ c.rule.data_type \in {"Integer", "Float"}
    /\ validate_type(c.value, c.rule.data_type)
    /\ as_f64(c.value)[1].cls \in {"fin", "big"}
    /\ IsSome(c.rule.enum_values)

\* C8 (as claimed): a finite number validated against a numeric rule whose enum
\* holds a non-numeric entry always gets an Invalid enum value type error,
\* wherever the entry stands and whether or not another entry equals the value.
C8_NonNumericEnumEntryAlwaysReported ==
    Validated =>
        \A i \in CallIndices :
            LET c == calls[i] IN
            (/\ FiniteNumberCall(c)
             /\ \E n \in 1..Len(c.rule.enum_values[1]) :
                    c.rule.enum_values[1][n].tag # "Number") =>
                CountErrors(errors, c.path, "Invalid enum value type") >= 1

(***************************************************************************)
(* SpecLoad: schema files whose rules carry constraints of every kind,     *)
(* legal or not for their type, down to the third level                    *)
(***************************************************************************)
LengthChoices == {<<None, None>>, <<Some(1), None>>, <<Some(1), Some(1)>>, <<Some(2), Some(1)>>}
PatternChoices == {None, Some(<<"^", "a">>), Some(<<"*", "[">>)}
\* `.nan` is a YAML float: serde_yaml reads it as a Number whose as_f64 is NaN
MinMaxChoices ==
    {<<None, None>>, <<Some(VInt(1)), None>>, <<Some(VInt(1)), Some(VInt(1))>>,
     <<Some(VInt(2)), Some(VInt(1))>>, <<Some(VFloat("nan", 0)), Some(VInt(1))>>}
EnumChoices == {None, Some(<<VInt(1)>>)}

\* rules of the third level
GrandchildRules ==
    {Rule("Integer"),
     [Rule("Integer") EXCEPT !.pattern = Some(<<"^", "a">>)],
     [Rule("Boolean") EXCEPT !.enum_values = Some(<<VBool(TRUE)>>)],
     [Rule("String") EXCEPT !.pattern = Some(<<"*", "[">>)]}
\* rules of the second level: a rule of any of these types may carry keys or items
LoadChildRules ==
    GrandchildRules
    \cup {[Rule(t) EXCEPT !.keys = Some([k \in {KA} |-> g])] :
            t \in {"Object", "String"}, g \in GrandchildRules}
    \cup {[Rule(t) EXCEPT !.items = Some(g)] :
            t \in {"List", "Integer"}, g \in GrandchildRules}
LoadItemRules ==
    GrandchildRules \cup {[Rule("List") EXCEPT !.items = Some(g)] : g \in GrandchildRules}

LoadSchemas ==
    {[Rule(t) EXCEPT !.keys = ks, !.items = it,
                     !.min_length = ln[1], !.max_length = ln[2],
                     !.pattern = pat, !.min = mm[1], !.max = mm[2],
                     !.enum_values = en] :
        t \in SchemaType,
        ks \in {None, Some(<<>>)} \cup {Some([k \in {KA} |-> c]) : c \in LoadChildRules},
        it \in {None} \cup {Some(c) : c \in LoadItemRules},
        ln \in LengthChoices, pat \in PatternChoices, mm \in MinMaxChoices,
        en \in EnumChoices}

InitLoad ==
    /\ rawSchema \in LoadSchemas
    /\ config = VInt(1)
    /\ strict = FALSE
    /\ hashOrder = <<KA, KB>>
    /\ Fresh
    /\ NoCli
    /\ NoContent

SpecLoad == InitLoad /\ [][Next]_vars

\* the per-type whitelist of the constraint fields
LegalFor(rule) ==
    /\ IsSome(rule.keys) => rule.data_type = "Object"
    /\ IsSome(rule.items) => rule.data_type = "List"
    /\ HasLengths(rule) => rule.data_type \in {"String", "List"}
    /\ IsSome(rule.pattern) => rule.data_type = "String"
    /\ HasMinMax(rule) => rule.data_type \in {"Integer", "Float"}

\* C9: from_file fails for every schema holding, at any depth reachable through
\* keys or items, a rule with keys, items, min_length/max_length, pattern or
\* min/max that is not legal for its type; every rule of a loaded schema
\* satisfies the whitelist.
C9_IllegalConstraintRejected ==
    pc # "start" =>
        /\ (\E r \in RulesOf(rawSchema) : ~LegalFor(r)) =>
              (pc = "schema_failed" /\ ~IsSome(schema) /\ schemaErr # "none")
        /\ IsSome(schema) => \A r \in RulesOf(schema[1].root) : LegalFor(r)

\* the only illegal rule sits two levels below a root and a child that are legal
C9_Witness ==
    /\ pc = "schema_failed"
    /\ LegalFor(rawSchema)
    /\ IsSome(rawSchema.items)
    /\ LegalFor(rawSchema.items[1])
    /\ IsSome(rawSchema.items[1].items)
    /\ ~LegalFor(rawSchema.items[1].items[1])
    /\ ~LengthsInverted(rawSchema)

\* C10 (as claimed): from_file rejects a schema in which an enum is attached to
\* a rule whose type is not string, integer or float.
C10_EnumOnOtherTypeRejected ==
    pc # "start" =>
        ((\E r \in RulesOf(rawSchema) :
              IsSome(r.enum_values) /\ r.data_type \notin {"String", "Integer", "Float"})
            => pc = "schema_failed")

(***************************************************************************)
(* C11..C12: what a loaded schema guarantees                               *)
(***************************************************************************)
\* a string rule whose pattern the regex crate refuses
MalformedPattern(r) ==
    r.data_type = "String" /\ IsSome(r.pattern) /\ ~RegexCompiles(r.pattern[1])

\* C11: a schema holding a string rule with a malformed pattern anywhere in
\* its tree is refused by from_file with a Schema error; so no string rule of
\* a loaded schema has a malformed pattern, validate never fails with a
\* Pattern (or Schema) error, and no invocation of the walk is cut short.
C11_MalformedPatternIsSchemaError ==
    /\ (pc # "start" /\ \E r \in RulesOf(rawSchema) : MalformedPattern(r)) =>
           (pc = "schema_failed" /\ schemaErr = "Schema" /\ ~IsSome(schema))
    /\ IsSome(schema) => \A r \in RulesOf(schema[1].root) : ~MalformedPattern(r)
    /\ Validated =>
           /\ Result.kind \in {"Valid", "AllValidationErrors"}
           /\ \A i \in CallIndices :
                  validate_node(calls[i].value, calls[i].rule, calls[i].path,
                                EmptyAcc, calls[i].strict).err = "none"

\* the malformed pattern sits on a key of the root, and the document has a
\* string there that validate_string would have had to match
C11_Witness ==
    /\ pc = "schema_failed"
    /\ rawSchema.data_type = "Object"
    /\ MalformedPattern(rawSchema.keys[1][KA])
    /\ config.tag = "Mapping"
    /\ IsSome(MapGet(config.entries, VString(KA)))
    /\ MapGet(config.entries, VString(KA))[1].tag = "String"

\* x <= y on f64 (false when either is NaN)
F64Le(x, y) == ~is_nan(x) /\ ~is_nan(y) /\ ~F64Lt(y, x)
\* both length bounds are present and min_length > max_length
InvertedLengths(r) ==
    /\ r.data_type \in {"String", "List"}
    /\ LengthsInverted(r)
\* both numeric bounds are present, numeric, and min > max
InvertedMinMax(r) ==
    /\ r.data_type \in {"Integer", "Float"}
    /\ IsSome(r.min) /\ IsSome(r.max)
    /\ IsSome(as_f64(r.min[1])) /\ IsSome(as_f64(r.max[1]))
    /\ F64Lt(as_f64(r.max[1])[1], as_f64(r.min[1])[1])

\* C12 (as claimed): from_file refuses every schema holding, at any depth, a
\* rule whose two bounds are present and inverted, and in every rule of a
\* loaded schema min_length <= max_length and min <= max whenever both
\* bounds are present.
C12_LoadedBoundsOrdered ==
    /\ (pc # "start" /\ \E r \in RulesOf(rawSchema) :
                            InvertedLengths(r) \/ InvertedMinMax(r)) =>
           pc = "schema_failed"
    /\ IsSome(schema) =>
           \A r \in RulesOf(schema[1].root) :
               /\ (IsSome(r.min_length) /\ IsSome(r.max_length)) =>
                      r.min_length[1] <= r.max_length[1]
               /\ (IsSome(r.min) /\ IsSome(r.max)) =>
                      /\ IsSome(as_f64(r.min[1])) /\ IsSome(as_f64(r.max[1]))
                      /\ F64Le(as_f64(r.min[1])[1], as_f64(r.max[1])[1])

(***************************************************************************)
(* C13..C16: the constraints of numbers, strings and lists                 *)
(***************************************************************************)
\* a Number that is neither NaN nor infinite
IsFiniteNumber(v) ==
    v.tag = "Number" /\ (v.repr = "float" => v.f.cls \in {"fin", "big"})
\* the exact value of a finite Number, as <<number of 2^53 units, twice the rest>>
ExactValue(v) ==
    IF v.repr = "int" THEN <<IF v.big THEN 1 ELSE 0, 2 * v.n>>
    ELSE <<IF v.f.cls = "big" THEN 1 ELSE 0, v.f.twice>>
\* v < w on the exact values of two finite Numbers
ExactLt(v, w) ==
    \/ ExactValue(v)[1] < ExactValue(w)[1]
    \/ ExactValue(v)[1] = ExactValue(w)[1] /\ ExactValue(v)[2] < ExactValue(w)[2]
\* the invocation validated a finite number against a rule of its own numeric type
BoundedNumberCall(c) ==
    /\ c.rule.data_type \in {"Integer", "Float"}
    /\ validate_type(c.value, c.rule.data_type)
    /\ IsFiniteNumber(c.value)

\* C13 (as claimed): for a finite number v matching an integer/float rule,
\* Value too small is reported (once) iff min is present and v < min, and
\* Value too large (once) iff max is present and v > max; v equal to a bound
\* gets no bound error.
C13_NumericBoundsInclusive ==
    Validated =>
        \A i \in CallIndices :
            LET c == calls[i] IN
            BoundedNumberCall(c) =>
                /\ CountErrors(errors, c.path, "Value too small")
                      = IF /\ IsSome(c.rule.min) /\ IsFiniteNumber(c.rule.min[1])
                           /\ ExactLt(c.value, c.rule.min[1])
                        THEN 1 ELSE 0
                /\ CountErrors(errors, c.path, "Value too large")
                      = IF /\ IsSome(c.rule.max) /\ IsFiniteNumber(c.rule.max[1])
                           /\ ExactLt(c.rule.max[1], c.value)
                        THEN 1 ELSE 0

(***************************************************************************)
(* SpecStr: a string rule with lengths, a pattern and an enum, against     *)
(* strings over an alphabet with one two-byte letter                       *)
(***************************************************************************)
MaxStrLen == 2

Alphabet == {"a", "b", "é"}
Strings == SeqsUpTo(Alphabet, MaxStrLen)
StrEnums ==
    {None, Some(<<>>), Some(<<VString(<<"a">>)>>), Some(<<VInt(1)>>),
     Some(<<VString(<<"b">>), VString(<<"a", "é">>)>>)}
StrSchemas ==
    {[Rule("String") EXCEPT !.min_length = lo, !.max_length = hi,
                            !.pattern = pat, !.enum_values = en] :
        lo \in {None, Some(1), Some(2)},
        hi \in {None, Some(1), Some(2)},
        pat \in {None, Some(<<"^", "a">>), Some(<<"b">>)},
        en \in StrEnums}
StrDocs == {VString(q) : q \in Strings} \cup {VInt(1)}

InitStr ==
    /\ rawSchema \in StrSchemas
    /\ config \in StrDocs
    /\ strict \in BOOLEAN
    /\ hashOrder = <<KA, KB>>
    /\ Fresh
    /\ NoCli
    /\ NoContent

SpecStr == InitStr /\ [][Next]_vars

\* the invocation validated a string against a string rule
StringCall(c) == c.rule.data_type = "String" /\ c.value.tag = "String"

\* C14 (as claimed): String too short is reported iff the number of characters
\* of the string is below min_length, String too long iff it is above
\* max_length, also for strings with characters of more than one byte.
C14_StringLengthInCharacters ==
    Validated =>
        \A i \in CallIndices :
            LET c == calls[i] IN
            StringCall(c) =>
                /\ CountErrors(errors, c.path, "String too short")
                      = IF IsSome(c.rule.min_length) /\ Len(c.value.s) < c.rule.min_length[1]
                        THEN 1 ELSE 0
                /\ CountErrors(errors, c.path, "String too long")
                      = IF IsSome(c.rule.max_length) /\ Len(c.value.s) > c.rule.max_length[1]
                        THEN 1 ELSE 0

\* some string entry of the enum equals the string exactly
InStringEnum(enum_values, s) ==
    \E n \in 1..Len(enum_values) :
        enum_values[n].tag = "String" /\ enum_values[n].s = s

\* C16: a string matched against a string rule gets exactly one String
\* doesn't match pattern error iff the rule has a pattern the string does not
\* match (none otherwise), and exactly one Value not in allowed set error iff
\* the rule has an enum none of whose string entries equals it (none
\* otherwise); each is decided on its own, whatever the length checks and the
\* other check found.
C16_PatternAndEnumIndependent ==
    Validated =>
        \A i \in CallIndices :
            LET c == calls[i] IN
            StringCall(c) =>
                /\ CountErrors(errors, c.path, "String doesn't match pattern")
                      = IF /\ IsSome(c.rule.pattern)
                           /\ ~RegexIsMatch(c.rule.pattern[1], c.value.s)
                        THEN 1 ELSE 0
                /\ CountErrors(errors, c.path, "Value not in allowed set")
                      = IF /\ IsSome(c.rule.enum_values)
                           /\ ~InStringEnum(c.rule.enum_values[1], c.value.s)
                        THEN 1 ELSE 0

\* one string fails its length bound, its pattern and its enum at once
C16_Witness ==
    /\ Validated
    /\ CountErrors(errors, <<>>, "String too short") = 1
    /\ CountErrors(errors, <<>>, "String doesn't match pattern") = 1
    /\ CountErrors(errors, <<>>, "Value not in allowed set") = 1
    /\ Len(errors) = 3

(***************************************************************************)
(* SpecList: a list rule with length bounds, against lists                 *)
(***************************************************************************)
ListSchemas ==
    {[Rule("List") EXCEPT !.min_length = lo, !.max_length = hi, !.items = it] :
        lo \in {None, Some(0), Some(1), Some(2)},
        hi \in {None, Some(0), Some(1)},
        it \in {None, Some(IntLeaf(FALSE)), Some(Rule("String"))}}
ListDocs ==
    {VSequence(q) : q \in SeqsUpTo({VInt(1), VInt(2), VString(<<"b">>)}, MaxListLen)}
    \cup {VInt(1)}

InitList ==
    /\ rawSchema \in ListSchemas
    /\ config \in ListDocs
    /\ strict \in BOOLEAN
    /\ hashOrder = <<KA, KB>>
    /\ Fresh
    /\ NoCli
    /\ NoContent

SpecList == InitList /\ [][Next]_vars

\* the invocation validated a list against a list rule
SequenceCall(c) == c.rule.data_type = "List" /\ c.value.tag = "Sequence"

\* C15: a list matched against a list rule gets exactly one List too short
\* iff it has fewer than min_length elements and exactly one List too long
\* iff it has more than max_length (none otherwise); with min_length = 1 the
\* empty list gets List too short and nothing else at or below that node, and
\* a one-element list gets no List too short.
C15_ListLengthBounds ==
    Validated =>
        \A i \in CallIndices :
            LET c == calls[i] IN
            SequenceCall(c) =>
                /\ CountErrors(errors, c.path, "List too short")
                      = IF /\ IsSome(c.rule.min_length)
                           /\ Len(c.value.items) < c.rule.min_length[1]
                        THEN 1 ELSE 0
                /\ CountErrors(errors, c.path, "List too long")
                      = IF /\ IsSome(c.rule.max_length)
                           /\ Len(c.value.items) > c.rule.max_length[1]
                        THEN 1 ELSE 0
                /\ (c.rule.min_length = Some(1) /\ c.value.items = <<>>) =>
                      /\ Len(ErrorsUnder(errors, c.path)) = 1
                      /\ ErrorsUnder(errors, c.path)[1].message = "List too short"
                /\ (c.rule.min_length = Some(1) /\ Len(c.value.items) = 1) =>
                      CountErrors(errors, c.path, "List too short") = 0

\* the empty list met min_length = 1 under a rule that also has a max_length
\* and an items rule
C15_Witness ==
    /\ Validated
    /\ config = VSequence(<<>>)
    /\ schema[1].root.min_length = Some(1)
    /\ IsSome(schema[1].root.max_length)
    /\ IsSome(schema[1].root.items)
    /\ Len(errors) = 1
    /\ errors[1].message = "List too short"

(***************************************************************************)
(* SpecTwice: the process is run a second time on the same schema file,    *)
(* document and flags; the HashMap of the second process has an order of   *)
(* its own                                                                 *)
(***************************************************************************)
\* a second run: everything starts afresh, the first run's result is kept
\* aside for comparison
Again ==
    /\ pc = "validated"
    /\ prev = None
    /\ prev' = Some([collected |-> errors, result |-> outcome[1]])
    /\ hashOrder' \in HashOrders
    /\ pc' = "start"
    /\ schema' = None
    /\ schemaErr' = "none"
    /\ errors' = <<>>
    /\ calls' = <<>>
    /\ outcome' = None
    /\ UNCHANGED <<rawSchema, config, textVars, strict, cliVars>>

NextTwice == FromFile \/ Validate \/ Again
SpecTwice == Init /\ [][NextTwice]_vars

\* the errors of a list as a set of (path, message, expected, actual)
ErrorSet(errs) ==
    {[path |-> errs[n].path, message |-> errs[n].message,
      expected |-> errs[n].expected, actual |-> errs[n].actual] : n \in 1..Len(errs)}

\* C17: two runs of validate on the same document, schema and strict flag
\* agree on Valid versus failure and report the same set of errors, whatever
\* order each run's HashMap iterates in.
C17_Deterministic ==
    (Validated /\ IsSome(prev)) =>
        /\ Result.kind = prev[1].result.kind
        /\ ErrorSet(errors) = ErrorSet(prev[1].collected)

\* the second run iterated the declared keys in the other order and, like
\* the first, reported both of two missing required keys
C17_Witness ==
    /\ Validated
    /\ IsSome(prev)
    /\ errors # prev[1].collected
    /\ CountErrors(errors, <<".", "a">>, "Required key missing") = 1
    /\ CountErrors(errors, <<".", "b">>, "Required key missing") = 1

(***************************************************************************)
(* SpecCli: the whole run of `configguard validate` on one or more files   *)
(* or on one directory                                                     *)
(***************************************************************************)
MaxFiles == 2

\* an object with the required integer keys of K, each at most 1
FlatSchema(K) == [Rule("Object") EXCEPT !.keys = Some([k \in K |-> IntLeaf(TRUE)])]
CliSchemas == {FlatSchema({KA, KB}), FlatSchema({KA}), StrLeaf(<<"*", "[">>)}
CliDocs ==
    {VMapping(<<>>),
     VMapping(<<Entry(VString(KA), VInt(1))>>),
     VMapping(<<Entry(VString(KA), VInt(1)), Entry(VString(KB), VInt(1))>>),
     VMapping(<<Entry(VString(KA), VInt(2)), Entry(VString(KB), VInt(2))>>)}
CliFiles ==
    {File("yaml", TRUE, Some(d)) : d \in CliDocs}
    \cup {File("yaml", FALSE, None), File("yaml", TRUE, None), File("json", TRUE, None),
          File("txt", TRUE, None), File("", TRUE, None)}

\* what the --schema argument may name
CliSchemaFiles ==
    CliSchemas \cup {SchemaFileNotFound, SchemaFileUnreadable, SchemaFileUnparsable}

InitCli ==
    /\ rawSchema \in CliSchemaFiles
    /\ files \in UNION {[1..n -> CliFiles] : n \in 1..MaxFiles}
    /\ format \in {"text", "json"}
    /\ directory \in BOOLEAN
    /\ strict \in BOOLEAN
    /\ hashOrder \in HashOrders
    \* no Config is loaded yet
    /\ config = VNull
    /\ NoContent
    /\ Fresh

SpecCli == InitCli /\ [][NextCli]_vars

Exited == pc = "exited"
\* printed item k renders error e with its path, message, expected, actual and
\* description, and with its line when it has one
RendersInFull(k, e) ==
    /\ AllFields \subseteq printed[k].fields
    /\ IsSome(e.line) => "line" \in printed[k].fields
    /\ \E m \in 1..Len(printed[k].errors) : printed[k].errors[m] = e

\* C18 (as claimed): once the process has exited, every ValidationError
\* collected for every file that failed validation has been printed with its
\* path, message, expected, actual and description (and line when set), in
\* text and in JSON format, for one file and for several.
C18_OutputShowsEveryError ==
    Exited =>
        \A i \in 1..Len(results) :
            \A n \in 1..Len(results[i].collected) :
                \E k \in 1..Len(printed) : RendersInFull(k, results[i].collected[n])

\* the file is one the loop calls validate_single_config for
Considered(f) == ~directory \/ detect_format(f)
\* the file does not load, or the document it holds has validation errors
FileFails(f) ==
    \/ ~Config_from_file(f).ok
    \/ validate(Config(f.parsed[1], "Yaml", None), schema[1], strict).collected # <<>>

SingleDocumentRun == Exited /\ IsSome(schema) /\ ~directory /\ Len(files) = 1
PrintedText(text) == \E k \in 1..Len(printed) : printed[k].text = text

\* C20 (as claimed): with one document and a loadable schema, the process
\* exits with 0 after printing "Configuration validation passed" iff validate
\* collected no error, and with 10 iff it collected at least one.
C20_ExitZeroAfterPassedMessage ==
    (SingleDocumentRun /\ results[1].validated) =>
        /\ (exited = Some(0) /\ PrintedText("Configuration validation passed."))
              <=> results[1].collected = <<>>
        /\ exited = Some(10) <=> results[1].collected # <<>>

\* C20 (amended): with one document that loads and a loadable schema, the
\* process exits with 0 iff validate collected no error, having printed the
\* report of the requested format ("Configuration validation passed." in text
\* format, a report with valid: true in JSON format), and with 10 iff validate
\* collected at least one error; a document that does not load gives 3, 4 or 5.
C20_ExitCodeSingleDocument ==
    SingleDocumentRun =>
        /\ results[1].validated =>
              /\ exited = Some(0) <=> results[1].collected = <<>>
              /\ exited = Some(10) <=> results[1].collected # <<>>
              /\ exited = Some(0) =>
                    PrintedText(IF format = "text" THEN "Configuration validation passed."
                                ELSE "{valid: true, error_count: 0, errors: []}")
        /\ ~results[1].validated => exited[1] \in {3, 4, 5}

\* under --strict a document whose only violation is an unknown key exits with 10
C20_Witness ==
    /\ SingleDocumentRun
    /\ strict
    /\ exited = Some(10)
    /\ Len(results[1].collected) = 1
    /\ results[1].collected[1].message = "Unknown key"

(***************************************************************************)
(* SpecLine: validate on a Config that carries its raw text (as the tests  *)
(* of validation.rs build it), for texts of a few lines                    *)
(***************************************************************************)
MaxLines == 3

\* the lines the texts are made of: keys at the margin and indented, a
\* comment, a quoted key, an indexed key, and an empty line
TextLines ==
    {<<"a", ":">>,
     <<"b", ":", " ", "2">>,
     <<" ", " ", "b", ":", " ", "2">>,
     <<"#", "b", ":", " ", "2">>,
     <<"\"", "b", "\"", ":", " ", "2", ",">>,
     <<"a", "[", "0", "]", ":", " ", "2">>,
     <<>>}
RECURSIVE JoinLines(_)
\* the text whose lines are ls, each ended by a line feed
JoinLines(ls) == IF ls = <<>> THEN <<>> ELSE Head(ls) \o <<"\n">> \o JoinLines(Tail(ls))
Texts == {JoinLines(ls) : ls \in SeqsUpTo(TextLines, MaxLines)}

LineSchemas ==
    {[Rule("Object") EXCEPT !.keys = Some([k \in KeyNames |-> IF k = KA THEN c ELSE IntLeaf(TRUE)])] :
        c \in {IntLeaf(TRUE),
               [Rule("Object") EXCEPT !.keys = Some([k \in {KB} |-> IntLeaf(TRUE)])],
               [Rule("List") EXCEPT !.items = Some(IntLeaf(TRUE))]}}
LineDocs ==
    {VInt(2), VMapping(<<>>),
     VMapping(<<Entry(VString(KA), VInt(2)), Entry(VString(KB), VInt(2))>>),
     VMapping(<<Entry(VString(KA), VMapping(<<Entry(VString(KB), VInt(2))>>)),
                Entry(VString(KB), VInt(2))>>),
     VMapping(<<Entry(VString(KA), VMapping(<<Entry(VString(KB), VInt(1))>>)),
                Entry(VString(KB), VInt(1))>>),
     VMapping(<<Entry(VString(KA), VSequence(<<VInt(2)>>)), Entry(VString(KB), VInt(1))>>)}

InitLine ==
    /\ rawSchema \in LineSchemas
    /\ config \in LineDocs
    /\ content \in {None} \cup {Some(t) : t \in Texts}
    /\ config_format \in {"Yaml", "Json"}
    /\ strict \in BOOLEAN
    /\ hashOrder = <<KA, KB>>
    /\ Fresh
    /\ NoCli

SpecLine == InitLine /\ [][Next]_vars

\* the key names the scan takes from one line of the text
KeysOnLine(line) ==
    DOMAIN (IF config_format = "Yaml" THEN ScanYamlLine(<<>>, line, 1)
            ELSE ScanJsonLine(<<>>, line, 1))
\* the numbers of the lines of the raw text on which key name k occurs
LinesNaming(k) ==
    {n \in 1..Len(lines(content[1])) : k \in KeysOnLine(lines(content[1])[n])}

\* C21 (as stated): an error whose last path segment, index suffix stripped,
\* is a key name that occurs in the raw text is annotated with the smallest
\* line number on which that key occurs.
C21_KeyMappedToFirstLine ==
    (Validated /\ IsSome(content)) =>
        \A i \in 1..Len(errors) :
            LET on == LinesNaming(clean_component(errors[i].path))
            IN errors[i].line = IF on = {} THEN None ELSE Some(Least(on))

\* C21 (amended): an error whose last path segment, index suffix stripped, is
\* a key name that occurs in the raw text is annotated with the LARGEST
\* line number on which that key occurs (a later line of the scan overwrites
\* an earlier one); an error whose key occurs on no line keeps its line absent.
C21_KeyMappedToLastLine ==
    (Validated /\ IsSome(content)) =>
        \A i \in 1..Len(errors) :
            LET on == LinesNaming(clean_component(errors[i].path))
            IN errors[i].line = IF on = {} THEN None ELSE Some(Greatest(on))

\* an error at `.a.b` whose key b occurs on two lines of the text, annotated
\* with the later one
C21_Witness ==
    /\ Validated
    /\ IsSome(content)
    /\ \E i \in 1..Len(errors) :
          /\ errors[i].path = <<".", "a", ".", "b">>
          /\ Cardinality(LinesNaming(KB)) >= 2
          /\ errors[i].line = Some(Greatest(LinesNaming(KB)))

\* the error lists agree in length and order, and each error of `with` is the
\* error of `bare` at the same place except, possibly, for its line
SameButLine(with, bare) ==
    /\ Len(with) = Len(bare)
    /\ \A i \in 1..Len(with) :
          /\ with[i].path = bare[i].path
          /\ with[i].message = bare[i].message
          /\ with[i].expected = bare[i].expected
          /\ with[i].actual = bare[i].actual
          /\ with[i].description = bare[i].description
          /\ bare[i].line = None
\* what validate returned with the raw text, against what it returns for the
\* same document, schema and strict flag on a Config without raw text
EnrichmentOnly(bare) ==
    /\ Result.kind = bare.result.kind
    /\ SameButLine(errors, bare.collected)
    /\ Result.kind = "AllValidationErrors" =>
          /\ bare.result.errors = bare.collected
          /\ Result.errors = errors
    /\ \A i \in 1..Len(errors) :
          LinesNaming(clean_component(errors[i].path)) = {} => errors[i].line = None

\* C22: line mapping is pure enrichment.  For the same document, schema and
\* strict flag, validate with the raw text and without it returns the same
\* Valid/failure outcome and the same errors in the same order, equal in
\* path, message, expected, actual and description; only `line` may differ,
\* and an error whose key is found on no line keeps its line absent.
C22_LineMappingIsEnrichment ==
    (Validated /\ IsSome(content)) =>
        EnrichmentOnly(validate(Config(config, config_format, None), schema[1], strict))

\* a failure with two errors of which one got a line and the other did not
C22_Witness ==
    /\ Validated
    /\ IsSome(content)
    /\ Result.kind = "AllValidationErrors"
    /\ \E i, j \in 1..Len(errors) : IsSome(errors[i].line) /\ errors[j].line = None

(***************************************************************************)
(* SpecType: every kind of value against a rule of every type, at the root *)
(* and under the keys of a root object                                     *)
(***************************************************************************)
TypeValues ==
    {VNull, VBool(TRUE), VInt(3), VBigInt(1), VFloat("fin", 6), VFloat("fin", 7),
     VFloat("nan", 0), VString(<<"a">>), VSequence(<<>>), VMapping(<<>>), VTagged}
TypeSchemas ==
    {Rule(t) : t \in SchemaType}
    \cup {[Rule("Object") EXCEPT !.keys = Some([k \in KeyNames |-> IF k = KA THEN Rule(t)
                                                                  ELSE Rule(u)])] :
            t \in SchemaType, u \in SchemaType}
TypeDocs ==
    TypeValues
    \cup {VMapping(<<Entry(VString(KA), v), Entry(VString(KB), w)>>) :
            v \in TypeValues, w \in TypeValues}

InitType ==
    /\ rawSchema \in TypeSchemas
    /\ config \in TypeDocs
    /\ strict \in BOOLEAN
    /\ hashOrder \in HashOrders
    /\ Fresh
    /\ NoCli
    /\ NoContent

SpecType == InitType /\ [][Next]_vars

\* what a value is: its tag and, for a number, its representation
KindOf(v) ==
    IF v.tag = "Number" THEN (IF v.repr = "int" THEN "exact integer" ELSE "floating")
    ELSE v.tag
\* the kinds of value each schema type matches
MatchedKinds(t) ==
    CASE t = "Any" -> {"Null", "Bool", "String", "Sequence", "Mapping", "Tagged",
                       "exact integer", "floating"}
      [] t = "Null" -> {"Null"}
      [] t = "String" -> {"String"}
      [] t = "Boolean" -> {"Bool"}
      [] t = "Object" -> {"Mapping"}
      [] t = "List" -> {"Sequence"}
      [] t = "Integer" -> {"exact integer"}
      [] t = "Float" -> {"floating"}

\* C23: type matching.  `any` matches every value, `null` only a null,
\* string, boolean, object and list only a value of the same tag, `integer`
\* only a number in exact-integer representation and `float` only a number in
\* floating representation; validate_node emits `Type mismatch` (once, at the
\* node's path, naming the rule's type and the value's type) for every node
\* whose value is outside this relation, and for no other node.
C23_TypeMatching ==
    Validated =>
        \A i \in CallIndices :
            LET c == calls[i]
                mismatches == SelectSeq(errors, LAMBDA e : /\ e.path = c.path
                                                           /\ e.message = "Type mismatch")
            IN IF KindOf(c.value) \in MatchedKinds(c.rule.data_type)
               THEN mismatches = <<>>
               ELSE /\ Len(mismatches) = 1
                    /\ mismatches[1].expected = <<c.rule.data_type>>
                    /\ mismatches[1].actual = <<value_type_name(c.value)>>

\* the integer 3 under a float rule and the float 3.0 under an integer rule,
\* both reported, beside nothing else
C23_Witness ==
    /\ Validated
    /\ config = VMapping(<<Entry(VString(KA), VInt(3)), Entry(VString(KB), VFloat("fin", 6))>>)
    /\ \E i, j \in CallIndices :
          /\ calls[i].path = KeyPath(<<>>, KA) /\ calls[i].rule.data_type = "Float"
          /\ calls[j].path = KeyPath(<<>>, KB) /\ calls[j].rule.data_type = "Integer"
    /\ Len(errors) = 2
    /\ \A n \in 1..2 : errors[n].message = "Type mismatch"

(***************************************************************************)
(* SpecItems: lists of objects and scalars against list rules with an      *)
(* items rule and length bounds, at the root and under a key               *)
(***************************************************************************)
ItemsListRules ==
    {[Rule("List") EXCEPT !.min_length = lo, !.max_length = hi, !.items = Some(it)] :
        lo \in {None, Some(2)}, hi \in {None, Some(1)},
        it \in ItemObjects \cup {IntLeaf(FALSE)}}
ItemsSchemas ==
    ItemsListRules
    \cup {[Rule("Object") EXCEPT !.allow_unknown_keys = u, !.keys = Some([k \in {KA} |-> l])] :
            u \in BOOLEAN, l \in ItemsListRules}
ItemsElements ==
    ElementValues \cup {VMapping(<<Entry(VString(KA), VInt(2)), Entry(VString(KB), VInt(2))>>)}
ItemsLists == {VSequence(q) : q \in SeqsUpTo(ItemsElements, MaxListLen)}
ItemsDocs == ItemsLists \cup {VMapping(<<Entry(VString(KA), l)>>) : l \in ItemsLists}

InitItems ==
    /\ rawSchema \in ItemsSchemas
    /\ config \in ItemsDocs
    /\ strict \in BOOLEAN
    /\ hashOrder \in HashOrders
    /\ Fresh
    /\ NoCli
    /\ NoContent

SpecItems == InitItems /\ [][Next]_vars

\* the invocations that validated element n (from 1) of the list of c
ElementCalls(c, n) ==
    {j \in CallIndices : /\ calls[j].path = ItemPath(c.path, n - 1)
                         /\ calls[j].value = c.value.items[n]
                         /\ calls[j].rule = c.rule.items[1]
                         /\ calls[j].strict = FALSE}

\* C24: when a list rule has an items rule, every element i of a non-empty
\* list is validated against it at path[i], also when a length error fired,
\* and with strict = false: whatever the strict flag of the run, an
\* undeclared key of an element that is an object is reported as Unknown key
\* iff the items rule's own allow_unknown_keys is false.
C24_ListItemsStrictReset ==
    Validated =>
        \A i \in CallIndices :
            LET c == calls[i] IN
            (ListCall(c) /\ c.value.items # <<>>) =>
                \A n \in 1..Len(c.value.items) :
                    /\ Cardinality(ElementCalls(c, n)) = 1
                    /\ \A j \in ElementCalls(c, n) :
                          ObjectCall(calls[j]) =>
                              \A k \in UndeclaredKeys(calls[j]) :
                                  UnknownKeyReported(calls[j], k)
                                      <=> ~c.rule.items[1].allow_unknown_keys

\* under strict = true a list that is too long holds an object with an
\* undeclared key; the items rule allows unknown keys and none is reported
C24_Witness ==
    /\ Validated
    /\ strict
    /\ \E i \in CallIndices :
          /\ ListCall(calls[i])
          /\ CountErrors(errors, calls[i].path, "List too long") = 1
          /\ calls[i].rule.items[1].allow_unknown_keys
          /\ \E n \in 1..Len(calls[i].value.items) :
                \E j \in ElementCalls(calls[i], n) :
                    /\ ObjectCall(calls[j])
                    /\ UndeclaredKeys(calls[j]) # {}
                    /\ \A k \in UndeclaredKeys(calls[j]) : ~UnknownKeyReported(calls[j], k)

(***************************************************************************)
(* SpecOrder: the documents and schemas of Spec together with those of     *)
(* SpecItems                                                               *)
(***************************************************************************)
InitOrder ==
    /\ \/ rawSchema \in StructSchemas /\ config \in StructDocs
       \/ rawSchema \in ItemsSchemas /\ config \in ItemsDocs
    /\ strict \in BOOLEAN
    /\ hashOrder \in HashOrders
    /\ Fresh
    /\ NoCli
    /\ NoContent

SpecOrder == InitOrder /\ [][Next]_vars

\* the messages of the errors a node gets at its own path from its own checks
NodeMessages ==
    {"Type mismatch", "List too short", "List too long", "String too short",
     "String too long", "String doesn't match pattern", "Value not in allowed set",
     "Invalid numeric value", "Value too small", "Value too large",
     "Invalid enum value type"}
\* the string keys of a mapping
StringKeys(value) ==
    {value.entries[n].key.s : n \in {m \in 1..Len(value.entries) :
                                        value.entries[m].key.tag = "String"}}
\* the positions, in the error list, of the errors about the node of c itself
OwnErrors(c) ==
    {j \in 1..Len(errors) :
        \/ errors[j].path = c.path /\ errors[j].message \in NodeMessages
        \/ /\ ObjectCall(c)
           /\ errors[j].message \in {"Required key missing", "Required object is empty"}
           /\ \E k \in DOMAIN c.rule.keys[1] : errors[j].path = KeyPath(c.path, k)}
\* the paths of the children of c that the walk descends into
ChildPaths(c) ==
    IF ObjectCall(c)
    THEN {KeyPath(c.path, k) : k \in StringKeys(c.value) \cap DOMAIN c.rule.keys[1]}
    ELSE IF ListCall(c)
    THEN {ItemPath(c.path, n - 1) : n \in 1..Len(c.value.items)}
    ELSE {}
\* the positions of the errors produced by validating the node at path p
ProducedAt(p) ==
    {j \in 1..Len(errors) :
        /\ IsUnder(p, errors[j].path)
        /\ ~(errors[j].path = p /\ errors[j].message = "Required object is empty")}

\* C25: the error list is in pre-order.  For every node, the errors about
\* the node itself (type mismatch, length, bound, pattern, enum, and the
\* Required-key checks of an object) come before every error produced by
\* validating its children, and the errors of the elements of a list come in
\* ascending index order.
C25_PreOrder ==
    Validated =>
        \A i \in CallIndices :
            LET c == calls[i] IN
            /\ \A p \in ChildPaths(c) :
                  \A own \in OwnErrors(c), below \in ProducedAt(p) : own < below
            /\ ListCall(c) =>
                  \A n, m \in 1..Len(c.value.items) :
                      n < m => \A e1 \in ProducedAt(ItemPath(c.path, n - 1)),
                                  e2 \in ProducedAt(ItemPath(c.path, m - 1)) : e1 < e2

\* an object with a missing required key and a list child whose two
\* elements are both in error
C25_Witness ==
    /\ Validated
    /\ \E i, j \in CallIndices :
          /\ ObjectCall(calls[i])
          /\ \E own \in OwnErrors(calls[i]) : errors[own].message = "Required key missing"
          /\ ListCall(calls[j])
          /\ calls[j].path \in ChildPaths(calls[i])
          /\ Len(calls[j].value.items) = 2
          /\ ProducedAt(ItemPath(calls[j].path, 0)) # {}
          /\ ProducedAt(ItemPath(calls[j].path, 1)) # {}

RECURSIVE NodesOf(_, _)
\* the nodes of a document tree, each with the text of its route from the
\* root: `.k` for the step into the field k of a mapping, `[i]` for the step
\* to element i (from 0) of a list
NodesOf(value, route) ==
    {[path |-> route, value |-> value]}
    \cup (IF value.tag = "Mapping"
          THEN UNION {IF value.entries[n].key.tag = "String"
                      THEN NodesOf(value.entries[n].val,
                                   route \o <<".">> \o value.entries[n].key.s)
                      ELSE {} : n \in 1..Len(value.entries)}
          ELSE {})
    \cup (IF value.tag = "Sequence"
          THEN UNION {NodesOf(value.items[n], route \o <<"[", ToString(n - 1), "]">>) :
                        n \in 1..Len(value.items)}
          ELSE {})
\* the declared keys of the object of c that its mapping lacks
MissingKeys(c) == DOMAIN c.rule.keys[1] \ StringKeys(c.value)
\* error e is about key k of some object the walk matched, k being one of the
\* keys that Keys gives for that object
AboutKeyOf(e, Keys(_)) ==
    \E i \in CallIndices :
        /\ ObjectCall(calls[i])
        /\ \E k \in Keys(calls[i]) : e.path = calls[i].path \o <<".">> \o k

\* C26: every path is the route from the root.  The root is validated at the
\* empty path, a field k at its object's path followed by `.k`, element i of
\* a list at the list's path followed by `[i]`; an error of a node's own
\* checks carries that node's path, and Required key missing, Required
\* object is empty and Unknown key carry the path of the object followed by
\* `.k` for the key they are about.
C26_PathsAreRoutes ==
    Validated =>
        /\ calls[1].path = <<>> /\ calls[1].value = config
        /\ \A i \in CallIndices :
              [path |-> calls[i].path, value |-> calls[i].value] \in NodesOf(config, <<>>)
        /\ \A j \in 1..Len(errors) :
              LET e == errors[j] IN
              CASE e.message \in NodeMessages ->
                      \E i \in CallIndices : calls[i].path = e.path
                [] e.message = "Required key missing" ->
                      AboutKeyOf(e, LAMBDA c : {k \in MissingKeys(c) : c.rule.keys[1][k].required})
                [] e.message = "Required object is empty" ->
                      AboutKeyOf(e, LAMBDA c : DOMAIN c.rule.keys[1] \cap StringKeys(c.value))
                [] e.message = "Unknown key" ->
                      AboutKeyOf(e, LAMBDA c : UndeclaredKeys(c))

\* a root-level list of two objects: the required key a is missing from
\* both, at `[0].a` and `[1].a`, and the undeclared key b is reported at `[1].b`
C26_Witness ==
    /\ Validated
    /\ config.tag = "Sequence"
    /\ CountErrors(errors, <<"[", "0", "]", ".", "a">>, "Required key missing") = 1
    /\ CountErrors(errors, <<"[", "1", "]", ".", "a">>, "Required key missing") = 1
    /\ CountErrors(errors, <<"[", "1", "]", ".", "b">>, "Unknown key") = 1

(***************************************************************************)
(* SpecWalk: lists of objects at the root and under a key, in a run where  *)
(* a step that can be taken is taken: run() calls validate as soon as the  *)
(* schema is loaded                                                        *)
(***************************************************************************)
WalkElements ==
    {VInt(1), VMapping(<<Entry(VString(KA), VInt(2)), Entry(VString(KB), VInt(2))>>)}
WalkLists == {VSequence(q) : q \in SeqsUpTo(WalkElements, MaxListLen)}
WalkDocs == WalkLists \cup {VMapping(<<Entry(VString(KA), l)>>) : l \in WalkLists}

WalkListRules == {l \in ItemsListRules : l.min_length = None}
WalkSchemas ==
    {r \in ItemsSchemas :
        r \in WalkListRules \/ (IsSome(r.keys) /\ r.keys[1][KA] \in WalkListRules)}

InitWalk ==
    /\ rawSchema \in WalkSchemas
    /\ config \in WalkDocs
    /\ strict \in BOOLEAN
    /\ hashOrder = <<KA, KB>>
    /\ Fresh
    /\ NoCli
    /\ NoContent

SpecWalk == InitWalk /\ [][Next]_vars /\ WF_vars(Next)

\* the nodes of the document above the node at path p
AncestorsOf(p) == {n \in NodesOf(config, <<>>) : n.path # p /\ IsUnder(n.path, p)}
\* validate_node was invoked at most once per node of the document, and only
\* for nodes all of whose ancestors were visited and matched their rule's type
SinglePass ==
    /\ \A i, j \in CallIndices : calls[i].path = calls[j].path => i = j
    /\ Len(calls) <= Cardinality(NodesOf(config, <<>>))
    /\ \A i \in CallIndices :
          /\ [path |-> calls[i].path, value |-> calls[i].value] \in NodesOf(config, <<>>)
          /\ \A n \in AncestorsOf(calls[i].path) :
                \E j \in 1..(i - 1) :
                    /\ calls[j].path = n.path
                    /\ calls[j].value = n.value
                    /\ KindOf(n.value) \in MatchedKinds(calls[j].rule.data_type)

\* C27: validate terminates and walks the document in a single pass.  Once
\* the schema is loaded, validate returns; and when it has returned,
\* validate_node was invoked at most once for each node of the document, and
\* only for nodes whose every ancestor matched the type of its rule.
C27_TerminatesInOnePass ==
    /\ [](Validated => SinglePass)
    /\ (pc = "loaded") ~> Validated

\* a document of four levels was walked down to a leaf, below a list whose
\* second element did not match; a node under an undeclared key was not visited
C27_Witness ==
    /\ Validated
    /\ SinglePass
    /\ \E i \in CallIndices : Cardinality(AncestorsOf(calls[i].path)) = 3
    /\ \E i \in CallIndices : ~validate_type(calls[i].value, calls[i].rule.data_type)
    /\ Len(calls) < Cardinality(NodesOf(config, <<>>))

(***************************************************************************)
(* C28..C29: objects that are empty, objects without declared keys         *)
(***************************************************************************)
\* under the object of c, the declared key k is required, of type object,
\* present with an empty mapping, and its rule declares at least one key
EmptyRequiredObject(c, k) ==
    LET r == c.rule.keys[1][k]
        got == MapGet(c.value.entries, VString(k))
    IN /\ r.required
       /\ r.data_type = "Object"
       /\ IsSome(got) /\ got[1] = VMapping(<<>>)
       /\ IsSome(r.keys) /\ DOMAIN r.keys[1] # {}

\* C28: when a required key of type object is present with an empty mapping
\* and its rule declares at least one key, validate_object emits exactly one
\* `Required object is empty` at the key's path (and in no other case), also
\* when none of the declared child keys is required, beside one `Required
\* key missing` for each required child; the result is then a failure.
C28_RequiredObjectIsEmpty ==
    Validated =>
        \A i \in CallIndices :
            LET c == calls[i] IN
            ObjectCall(c) =>
                \A k \in DOMAIN c.rule.keys[1] :
                    IF EmptyRequiredObject(c, k)
                    THEN /\ CountErrors(errors, KeyPath(c.path, k),
                                        "Required object is empty") = 1
                         /\ \A k2 \in DOMAIN c.rule.keys[1][k].keys[1] :
                               CountErrors(errors, KeyPath(KeyPath(c.path, k), k2),
                                           "Required key missing")
                                  = IF c.rule.keys[1][k].keys[1][k2].required THEN 1 ELSE 0
                         /\ Result.kind = "AllValidationErrors"
                    ELSE CountErrors(errors, KeyPath(c.path, k),
                                     "Required object is empty") = 0

\* the document holds every required key with the right type, no declared
\* child of the empty object is required, and the one error is the empty object
C28_Witness ==
    /\ Validated
    /\ config = VMapping(<<Entry(VString(KA), VMapping(<<>>))>>)
    /\ ObjectCall(calls[1])
    /\ EmptyRequiredObject(calls[1], KA)
    /\ \A k \in DOMAIN calls[1].rule.keys[1] :
          calls[1].rule.keys[1][k].required => k = KA
    /\ \A k2 \in DOMAIN calls[1].rule.keys[1][KA].keys[1] :
          ~calls[1].rule.keys[1][KA].keys[1][k2].required
    /\ Len(errors) = 1
    /\ errors[1].message = "Required object is empty"
    /\ errors[1].path = KeyPath(<<>>, KA)
    /\ Result.kind = "AllValidationErrors"

(***************************************************************************)
(* SpecKeys: object rules with and without `keys`, against mappings whose  *)
(* keys are strings, numbers and null                                      *)
(***************************************************************************)
KeyedRules ==
    {[Rule("Object") EXCEPT !.allow_unknown_keys = u, !.keys = k] :
        u \in BOOLEAN, k \in {None} \cup {Some(f) : f \in MapsOver({IntLeaf(FALSE)})}}
KeysSchemas ==
    KeyedRules
    \cup {[Rule("Object") EXCEPT !.allow_unknown_keys = u, !.keys = Some([k \in {KA} |-> r])] :
            u \in BOOLEAN, r \in KeyedRules}
MappingKeys == {VString(KA), VString(KB), VInt(1), VNull}
\* the mappings of at most two entries, with keys among MappingKeys and values in C
KeyedMappings(C) ==
    {VMapping(<<>>)}
    \cup {VMapping(<<Entry(k, v)>>) : k \in MappingKeys, v \in C}
    \cup UNION {{VMapping(<<Entry(k, v), Entry(l, w)>>) :
                    l \in MappingKeys \ {k}, v \in C, w \in C} : k \in MappingKeys}
KeysDocs ==
    KeyedMappings({VInt(2)})
    \cup {VMapping(<<Entry(k, m)>>) : k \in {VString(KA), VInt(1)},
                                       m \in KeyedMappings({VInt(2)})}

InitKeys ==
    /\ rawSchema \in KeysSchemas
    /\ config \in KeysDocs
    /\ strict \in BOOLEAN
    /\ hashOrder \in HashOrders
    /\ Fresh
    /\ NoCli
    /\ NoContent

SpecKeys == InitKeys /\ [][Next]_vars

\* the invocation matched a mapping against an object rule without `keys`
BareObjectCall(c) ==
    c.rule.data_type = "Object" /\ c.value.tag = "Mapping" /\ c.rule.keys = None

\* C29: an object rule without `keys` accepts every mapping without any
\* check: no Unknown key and no other error is produced at that node or below
\* it and nothing below it is visited, whatever strict and the rule's
\* allow_unknown_keys are; and an Unknown key error is always about a string
\* key of a mapping whose rule has `keys`: a key that is not a string is
\* never reported.
C29_ObjectWithoutKeysAcceptsAll ==
    Validated =>
        /\ \A i \in CallIndices :
              BareObjectCall(calls[i]) =>
                  /\ ErrorsUnder(errors, calls[i].path) = <<>>
                  /\ \A j \in CallIndices : IsUnder(calls[i].path, calls[j].path) => j = i
        /\ \A n \in 1..Len(errors) :
              errors[n].message = "Unknown key" =>
                  AboutKeyOf(errors[n], LAMBDA c : UndeclaredKeys(c))

\* under strict = true, a rule without keys that sets allow_unknown_keys to
\* false met a mapping with a string key and a number key: Valid
C29_Witness ==
    /\ Validated
    /\ strict
    /\ BareObjectCall(calls[1])
    /\ ~calls[1].rule.allow_unknown_keys
    /\ config = VMapping(<<Entry(VString(KB), VInt(2)), Entry(VInt(1), VInt(2))>>)
    /\ errors = <<>>
    /\ Result.kind = "Valid"

(***************************************************************************)
(* C30: the exit codes a run can end with                                  *)
(***************************************************************************)
\* C30: exit-code masking.  Schema::from_file fails only with FileNotFound,
\* IO or Schema (exit codes 2, 30, 11): an invalid pattern is re-wrapped as a
\* Schema error, and no run exits with the pattern code 12.  When two or more
\* document paths are given and at least one of them fails, for whatever
\* reason, the run ends with the generic ValidationErrors failure and code
\* 10; a document's own failure category (3, 4, 5) is the exit code only of
\* a run that was given exactly one path.
C30_ExitCodeMasking ==
    Exited =>
        /\ exited[1] # 12
        /\ ~IsSome(schema) =>
              /\ schemaErr \in {"FileNotFound", "IO", "Schema"}
              /\ exited = Some(CASE schemaErr = "FileNotFound" -> 2
                                 [] schemaErr = "IO" -> 30
                                 [] schemaErr = "Schema" -> 11)
        /\ IsSome(schema) =>
              /\ (~directory /\ Len(files) >= 2 /\ \E i \in 1..Len(files) : FileFails(files[i]))
                    => /\ run_result[1].kind = "Failure"
                       /\ run_result[1].err = ValidationErrors(1)
                       /\ exited = Some(10)
              /\ exited[1] \in {2, 3, 4, 5} => (~directory /\ Len(files) = 1)

\* of two documents the first does not parse and the second is valid: the run
\* ends with 10, not with the parse failure's 4
C30_Witness ==
    /\ Exited
    /\ IsSome(schema)
    /\ ~directory
    /\ Len(files) = 2
    /\ Config_from_file(files[1]).err \in {ParseYaml, ParseJson}
    /\ ~FileFails(files[2])
    /\ exited = Some(10)
====
